---------------------------- MODULE Spec2Model ----------------------------
(***************************************************************************)
(* The embedded game server of src/App.tsx (class GameServer, lines        *)
(* 444-708) and the parts of the App component that drive it.              *)
(*                                                                         *)
(* Numbers.  The program computes with IEEE doubles; the model computes    *)
(* with fixed-point integers:                                              *)
(*   - a length (coordinate, radius, velocity component, distance) is an   *)
(*     integer number of 1/LenScale world units, truncated toward zero;    *)
(*   - a mass is an integer number of 1/MassScale mass units.  MassScale   *)
(*     is 2^MaxSplitCalls, so that every halving the model can perform is  *)
(*     exact, as it is in binary floating point;                           *)
(*   - Math.PI is PiNum/PiDen.                                             *)
(* Date.now() is the variable now; Math.random() is a choice from small    *)
(* sets (SpawnSpots, NearDraws) or a fresh number (blob ids, timer ids).   *)
(* A blob's colour and a food item's colour are never read by the server   *)
(* and are left out.                                                       *)
(*                                                                         *)
(* The food array is kept run-length encoded: a sequence of runs, each a   *)
(* food item and the number n >= 1 of consecutive copies of it in the      *)
(* array, no two neighbouring runs holding the same item.  The array's     *)
(* length is the sum of the run lengths.                                   *)
(***************************************************************************)
EXTENDS Integers, Sequences, FiniteSets, TLC

\* ------------------------------------------------------------ constants
WORLD_WIDTH == 3000
WORLD_HEIGHT == 3000
INITIAL_PLAYER_MASS == 20
FOOD_COUNT == 200
FOOD_MASS == 1
MIN_MASS_TO_SPLIT == 30
RECOMBINE_DELAY_MS == 25000
SPLIT_EJECT_SPEED == 20
LEADERBOARD_SIZE == 10
MESSAGE_LOG_SIZE == 10

\* ------------------------------------------------------------ bounds
MaxTicks == 2
MaxJoins == 2
MaxSplitCalls == 1
MaxStarts == 2
MaxMessages == 1
MaxClockTicks == 1
MaxInputs == 1
InitNearFood == 11
NearDraw == 5
MaxRankJoins == 3
MaxBoardJoins == 12
MaxTwins == 1
MaxChat == 12
MaxProbeMass == 120
RimFood == 2

\* ------------------------------------------------------------ numbers
LenScale == 10
PiNum == 355
PiDen == 113

RECURSIVE Pow2(_)
Pow2(n) == IF n = 0 THEN 1 ELSE 2 * Pow2(n - 1)

MassScale == Pow2(MaxSplitCalls)

\* a mass given in whole mass units, in model units
Mass(m) == m * MassScale

\* a length given in whole world units, in model units
Len_(w) == w * LenScale

\* integer division truncating toward zero, as a double product cut to the grid
TruncDiv(a, b) == IF a >= 0 THEN a \div b ELSE -((-a) \div b)

Min(a, b) == IF a < b THEN a ELSE b
Max(a, b) == IF a > b THEN a ELSE b

RECURSIVE SqrtBetween(_, _, _)
SqrtBetween(n, lo, hi) ==
    IF lo >= hi THEN lo
    ELSE LET mid == (lo + hi + 1) \div 2
         IN  IF mid * mid <= n THEN SqrtBetween(n, mid, hi)
                               ELSE SqrtBetween(n, lo, mid - 1)

\* Math.sqrt on the grid: the largest r with r*r <= n
Sqrt(n) == SqrtBetween(n, 0, 46340)

\* ------------------------------------------------------------ utilities
Vec(x, y) == [x |-> x, y |-> y]

\* distance(p1, p2) = Math.hypot(p1.x - p2.x, p1.y - p2.y)
distance(p1, p2) ==
    Sqrt((p1.x - p2.x) * (p1.x - p2.x) + (p1.y - p2.y) * (p1.y - p2.y))

\* lerp(start, end, amt) with amt given in hundredths
lerp(start, end, amt) == TruncDiv((100 - amt) * start + amt * end, 100)

\* (mass / Math.PI) * 100, the square of massToRadius(mass), in squares of the
\* length unit
squaredRadius(mass) ==
    (((mass * 100 * LenScale * LenScale) \div MassScale) * PiDen) \div PiNum

\* Math.sqrt(Math.abs(mass - INITIAL_PLAYER_MASS) / Math.PI) * 10: the radius
\* measured from the mass a blob starts with
massToRadiusFromStart(mass) ==
    IF mass >= INITIAL_PLAYER_MASS * MassScale
    THEN Sqrt(squaredRadius(mass - INITIAL_PLAYER_MASS * MassScale))
    ELSE Sqrt(squaredRadius(INITIAL_PLAYER_MASS * MassScale - mass))

\* massToRadius(mass) = Math.sqrt(mass / Math.PI) * 10
massToRadius(mass) ==
    Sqrt((((mass * 100 * LenScale * LenScale) \div MassScale) * PiDen) \div PiNum)

getMaxBlobsForMass(mass) ==
    IF mass >= Mass(240) THEN 16
    ELSE IF mass >= Mass(120) THEN 8
    ELSE IF mass >= Mass(60) THEN 4
    ELSE IF mass >= Mass(MIN_MASS_TO_SPLIT) THEN 2
    ELSE 1


\* ------------------------------------------------------------ inputs
Names == {"a", "b"}
Texts == {"hi"}

\* the positions Math.random() is drawn from: NearSpot lies just inside the
\* right wall, EjectSpot is where a piece split off at NearSpot toward -x is
\* after one tick, LoneSpot and FarSpot are far from everything
NearSpot == Vec(Len_(WORLD_WIDTH) - 1, Len_(1000))
EjectSpot == Vec(NearSpot.x - Len_(75), NearSpot.y)
LoneSpot == Vec(Len_(100), Len_(100))
FarSpot == Vec(Len_(1500), Len_(2500))
SpawnSpots == {NearSpot, EjectSpot}

\* a place 28 from NearSpot: outside the radius of a new blob there (25.2),
\* inside its radius once it has eaten the InitNearFood items (31.4)
RimSpot == Vec(NearSpot.x - Len_(28), NearSpot.y)

\* the unit vectors (cos(angle), sin(angle)) of the mouse directions drawn:
\* the mouse on an axis through the window centre (atan2(0, 0) = 0 is East)
East == Vec(1, 0)
West == Vec(-1, 0)
Dirs == {East, West}

\* the mouse positions drawn, relative to the window centre: on the centre,
\* and 75 world units to its left
Mice == {Vec(0, 0), Vec(-Len_(75), 0)}

\* the main blob's positions relative to the camera that are drawn
Lags == {Vec(0, 0)}

\* the names the players of a crowded game type in, in the order they join
Guests ==
    <<"g01", "g02", "g03", "g04", "g05", "g06", "g07", "g08", "g09", "g10",
      "g11", "g12", "g13", "g14">>

\* the spawn positions drawn when the ranking is looked at
RankSpots == {LoneSpot, NearSpot, EjectSpot}

\* how many of the food items a tick creates land at NearSpot
NearDraws(k) == {0, Min(k, NearDraw)}

\* the readings of Date.now() that are drawn
Times == {0} \cup {RECOMBINE_DELAY_MS + k : k \in 0 .. MaxClockTicks}

\* ------------------------------------------------------------ state
VARIABLES
    blobs,         \* GameServer.blobs: the Map's values in insertion order
    food,          \* GameServer.food
    messages,      \* GameServer.messages
    tickInterval,  \* GameServer.tickInterval: Null or the id of the interval timer
    playerNames,   \* GameServer.playerNames: player id -> name
    published,     \* the GameState last passed to onStateUpdate (<<>>: none yet)
    timers,        \* the interval timers the window has scheduled
    now,           \* Date.now()
    ticks,         \* the number of tick() calls so far
    joins,         \* the number of connectPlayer calls so far
    splitCalls,    \* the number of playerSplit calls that split a blob so far
    starts,        \* the number of start() calls so far
    inputs,        \* the number of updatePlayerInput calls that steered a blob so far
    nextBlob,      \* the number of blob ids drawn so far
    resolved,      \* the blob-blob resolutions of the last tick() call, in order
    pushes,        \* the number of onStateUpdate calls so far
    snapshotBlobs, \* the blob objects in the array last passed to onStateUpdate,
                   \* as they are now
    frame,         \* the activation of the tick() call under way: the statement
                   \* it runs next (pc), with its locals consumedBlobIds, i
                   \* and j, and the world it found (entry); pc is "idle"
                   \* when no tick() call is under way
    client,        \* the App component of the WebSocket client (lines 57-283): its
                   \* state gameState and score, its refs, the sockets it has
                   \* made, and the game state its listener effect last ran for
    ui             \* the App component over the embedded server (lines 711-879):
                   \* its state uiState, playerIdRef, and what its game-over
                   \* effect last ran for

vars == <<blobs, food, messages, tickInterval, playerNames, published, timers,
          now, ticks, joins, splitCalls, starts, inputs, nextBlob, resolved,
          pushes, snapshotBlobs, frame, client, ui>>

Null == 0

\* the empty string, as a player id
EmptyId == <<>>

\* `${name}-${Date.now()}`
PlayerId(name, t) == <<name, t>>

\* the name passed where the player id belongs
createBlobOfName(playerId, name, pos, id, t) ==
    [id |-> id, playerId |-> PlayerId(name, -1), pos |-> pos,
     mass |-> Mass(INITIAL_PLAYER_MASS),
     radius |-> massToRadius(Mass(INITIAL_PLAYER_MASS)),
     velocity |-> Vec(0, 0), name |-> name, canRecombineTime |-> t]

\* createBlob(playerId, name), lines 456-469, with the position, the id and
\* the reading of Date.now() it draws
createBlob(playerId, name, pos, id, t) ==
    [id |-> id, playerId |-> playerId, pos |-> pos,
     mass |-> Mass(INITIAL_PLAYER_MASS),
     radius |-> massToRadius(Mass(INITIAL_PLAYER_MASS)),
     velocity |-> Vec(0, 0), name |-> name, canRecombineTime |-> t]

createFood(pos) ==
    [pos |-> pos, mass |-> Mass(FOOD_MASS), radius |-> massToRadius(Mass(FOOD_MASS))]

\* the array fd with n more copies of item pushed at its end
pushFood(fd, item, n) ==
    IF n = 0 THEN fd
    ELSE IF Len(fd) > 0 /\ fd[Len(fd)].item = item
    THEN [fd EXCEPT ![Len(fd)].n = fd[Len(fd)].n + n]
    ELSE Append(fd, [item |-> item, n |-> n])

\* this.food.length
RECURSIVE foodLength(_)
foodLength(fd) == IF fd = <<>> THEN 0 ELSE fd[1].n + foodLength(Tail(fd))

\* fd after k createFood() pushes, the first j of them at NearSpot and the
\* others at FarSpot
pushBatch(fd, k, j) ==
    pushFood(pushFood(fd, createFood(NearSpot), j), createFood(FarSpot), k - j)

\* ------------------------------------------------------------ tick()
\* a blob that would leave the world is put on the wall and bounces: the
\* velocity component toward the wall is reversed
moveBlobBounce(b) ==
    LET toX == b.pos.x + b.velocity.x
        toY == b.pos.y + b.velocity.y
        outX == toX < 0 \/ toX > Len_(WORLD_WIDTH)
        outY == toY < 0 \/ toY > Len_(WORLD_HEIGHT)
    IN  [b EXCEPT
           !.pos = Vec(Max(0, Min(Len_(WORLD_WIDTH), toX)),
                       Max(0, Min(Len_(WORLD_HEIGHT), toY))),
           !.velocity = Vec(TruncDiv((IF outX THEN -1 ELSE 1) * b.velocity.x * 98, 100),
                            TruncDiv((IF outY THEN -1 ELSE 1) * b.velocity.y * 98, 100))]

\* MOVEMENT (lines 501-508): integrate, clamp to the world, damp
moveBlob(b) ==
    [b EXCEPT
       !.pos = Vec(Max(0, Min(Len_(WORLD_WIDTH), b.pos.x + b.velocity.x)),
                   Max(0, Min(Len_(WORLD_HEIGHT), b.pos.y + b.velocity.y))),
       !.velocity = Vec(TruncDiv(b.velocity.x * 98, 100),
                        TruncDiv(b.velocity.y * 98, 100))]

movement(arr) == [i \in DOMAIN arr |-> moveBlob(arr[i])]

\* distance(p1, p2) < r, decided on the squares: for integers the largest s
\* with s*s <= d2 is below r exactly when d2 < r*r
closerThan(p1, p2, r) ==
    /\ r > 0
    /\ (p1.x - p2.x) * (p1.x - p2.x) + (p1.y - p2.y) * (p1.y - p2.y) < r * r

\* blob.mass += m; blob.radius = massToRadius(blob.mass)
gain(b, m) == [b EXCEPT !.mass = b.mass + m, !.radius = massToRadius(b.mass + m)]

\* the items are removed and the blob does not grow
eatRunNoGain(b, run) ==
    IF closerThan(b.pos, run.item.pos, b.radius)
    THEN [blob |-> b, left |-> 0]
    ELSE [blob |-> b, left |-> run.n]

\* line 516 left out: the radius stays what it was when the pass began
eatRunStaleRadius(b, run) ==
    IF closerThan(b.pos, run.item.pos, b.radius)
    THEN [blob |-> [b EXCEPT !.mass = b.mass + run.n * run.item.mass], left |-> 0]
    ELSE [blob |-> b, left |-> run.n]

\* the filter callback of lines 513-520 on the n copies of one item, in array
\* order: copy c is tested against the radius the blob has after eating the
\* copies before it.  The copies lie at one place and the radius never
\* shrinks, so the blob eats all n or none.
eatRun(b, run) ==
    IF closerThan(b.pos, run.item.pos, b.radius)
    THEN [blob |-> gain(b, run.n * run.item.mass), left |-> 0]
    ELSE [blob |-> b, left |-> run.n]

\* this.food.filter(...) for one blob, from run k on: the blob as grown, and
\* the array that is kept
RECURSIVE eatFrom(_, _, _, _)
eatFrom(b, fd, k, kept) ==
    IF k > Len(fd) THEN [blob |-> b, food |-> kept]
    ELSE LET r == eatRun(b, fd[k])
         IN  eatFrom(r.blob, fd, k + 1, pushFood(kept, fd[k].item, r.left))

\* Blob vs Food (lines 512-521), for the blobs i, i+1, ... of allBlobs
RECURSIVE eatAll(_, _, _)
eatAll(arr, fd, i) ==
    IF i > Len(arr) THEN [blobs |-> arr, food |-> fd]
    ELSE LET r == eatFrom(arr[i], fd, 1, <<>>)
         IN  eatAll([arr EXCEPT ![i] = r.blob], r.food, i + 1)

\* an `if` in place of the `while` of line 522: one item is pushed at most
missingFoodOnce(fd) == IF foodLength(fd) < FOOD_COUNT THEN 1 ELSE 0

\* the number of createFood() calls of the while loop of lines 522-524
missingFood(fd) ==
    IF foodLength(fd) < FOOD_COUNT THEN FOOD_COUNT - foodLength(fd) ELSE 0

\* lines 537-539: the pair is a recombination pair, and both timers have run out
sameOwner(b1, b2) == b1.playerId = b2.playerId /\ b1.playerId # EmptyId

\* the test of line 539 left out
canRecombineNoWait(b1, b2, t) == TRUE

canRecombine(b1, b2, t) == t > b1.canRecombineTime /\ t > b2.canRecombineTime

\* line 540
overlaps(b1, b2, dist) == dist < b1.radius \/ dist < b2.radius

\* the distance test of lines 549 and 553 left out
engulfsFromAfar(w, l, dist) == 10 * w.mass > 11 * l.mass

\* lines 549 and 553: w.mass > l.mass * 1.1 && dist < w.radius - l.radius * 0.5
engulfs(w, l, dist) ==
    /\ 10 * w.mass > 11 * l.mass
    /\ 2 * dist < 2 * w.radius - l.radius

\* lines 542, 551 and 555 left out: the winner keeps the radius it had
absorbStaleRadius(st, w, l, kind, t) ==
    LET arr == [st.arr EXCEPT ![w].mass = st.arr[w].mass + st.arr[l].mass]
    IN  [arr |-> arr,
         consumed |-> st.consumed \cup {st.arr[l].id},
         log |-> Append(st.log,
                    [kind |-> kind, winner |-> st.arr[w], loser |-> st.arr[l],
                     after |-> arr[w], at |-> t, i |-> Min(w, l), j |-> Max(w, l)])]

\* the loser is marked consumed and its mass goes to no blob
absorbNothing(st, w, l, kind, t) ==
    [arr |-> st.arr,
     consumed |-> st.consumed \cup {st.arr[l].id},
     log |-> Append(st.log,
                [kind |-> kind, winner |-> st.arr[w], loser |-> st.arr[l],
                 after |-> st.arr[w], at |-> t, i |-> Min(w, l), j |-> Max(w, l)])]

\* One pair (i, j) of the scan, lines 530-558.  st.arr is allBlobs, st.consumed
\* is consumedBlobIds, st.log lists the resolutions made so far in this tick.
absorb(st, w, l, kind, t) ==
    LET arr == [st.arr EXCEPT ![w] = gain(st.arr[w], st.arr[l].mass)]
    IN  [arr |-> arr,
         consumed |-> st.consumed \cup {st.arr[l].id},
         log |-> Append(st.log,
                    [kind |-> kind, winner |-> st.arr[w], loser |-> st.arr[l],
                     after |-> arr[w], at |-> t, i |-> Min(w, l), j |-> Max(w, l)])]

\* of two blobs that recombine the heavier one survives
resolvePairHeavier(st, i, j, t) ==
    LET b1 == st.arr[i]
        b2 == st.arr[j]
        dist == distance(b1.pos, b2.pos)
    IN  IF b1.id \in st.consumed \/ b2.id \in st.consumed THEN st
        ELSE IF sameOwner(b1, b2)
        THEN IF canRecombine(b1, b2, t) /\ overlaps(b1, b2, dist)
             THEN IF b2.mass > b1.mass
                  THEN absorb(st, j, i, "recombine", t)
                  ELSE absorb(st, i, j, "recombine", t)
             ELSE st
        ELSE IF engulfs(b1, b2, dist) THEN absorb(st, i, j, "engulf", t)
        ELSE IF engulfs(b2, b1, dist) THEN absorb(st, j, i, "engulf", t)
        ELSE st

\* line 532 left out: a blob marked consumed is tested like any other
resolvePairNoSkip(st, i, j, t) ==
    LET b1 == st.arr[i]
        b2 == st.arr[j]
        dist == distance(b1.pos, b2.pos)
    IN  IF sameOwner(b1, b2)
        THEN IF canRecombine(b1, b2, t) /\ overlaps(b1, b2, dist)
             THEN absorb(st, i, j, "recombine", t)
             ELSE st
        ELSE IF engulfs(b1, b2, dist) THEN absorb(st, i, j, "engulf", t)
        ELSE IF engulfs(b2, b1, dist) THEN absorb(st, j, i, "engulf", t)
        ELSE st

\* the mass blob x has won so far in this tick, by the log
RECURSIVE wonSoFar(_, _, _)
wonSoFar(log, k, id) ==
    IF k > Len(log) THEN 0
    ELSE (IF log[k].winner.id = id THEN log[k].loser.mass ELSE 0) + wonSoFar(log, k + 1, id)

\* the engulfment tests made on the masses and radii the blobs had when the
\* scan began, while the winner still takes the loser's mass at once
resolvePairStale(st, i, j, t) ==
    LET b1 == st.arr[i]
        b2 == st.arr[j]
        m1 == b1.mass - wonSoFar(st.log, 1, b1.id)
        m2 == b2.mass - wonSoFar(st.log, 1, b2.id)
        s1 == [b1 EXCEPT !.mass = m1, !.radius = massToRadius(m1)]
        s2 == [b2 EXCEPT !.mass = m2, !.radius = massToRadius(m2)]
        dist == distance(b1.pos, b2.pos)
    IN  IF b1.id \in st.consumed \/ b2.id \in st.consumed THEN st
        ELSE IF sameOwner(b1, b2)
        THEN IF canRecombine(b1, b2, t) /\ overlaps(b1, b2, dist)
             THEN absorb(st, i, j, "recombine", t)
             ELSE st
        ELSE IF engulfs(s1, s2, dist) THEN absorb(st, i, j, "engulf", t)
        ELSE IF engulfs(s2, s1, dist) THEN absorb(st, j, i, "engulf", t)
        ELSE st

resolvePair(st, i, j, t) ==
    LET b1 == st.arr[i]
        b2 == st.arr[j]
        dist == distance(b1.pos, b2.pos)
    IN  IF b1.id \in st.consumed \/ b2.id \in st.consumed THEN st
        ELSE IF sameOwner(b1, b2)
        THEN IF canRecombine(b1, b2, t) /\ overlaps(b1, b2, dist)
             THEN absorb(st, i, j, "recombine", t)
             ELSE st
        ELSE IF engulfs(b1, b2, dist) THEN absorb(st, i, j, "engulf", t)
        ELSE IF engulfs(b2, b1, dist) THEN absorb(st, j, i, "engulf", t)
        ELSE st

\* the nested loops of lines 528-560, from the pair (i, j) on
RECURSIVE resolveFrom(_, _, _, _)
resolveFrom(st, i, j, t) ==
    IF i > Len(st.arr) THEN st
    ELSE IF j > Len(st.arr) THEN resolveFrom(st, i + 1, i + 2, t)
    ELSE resolveFrom(resolvePair(st, i, j, t), i, j + 1, t)

resolvePairs(arr, t) ==
    resolveFrom([arr |-> arr, consumed |-> {}, log |-> <<>>], 1, 2, t)

\* the delete of line 562 left out
survivorsKeepAll(st) == st.arr

\* lines 561-563: the consumed blobs leave the Map
survivors(st) == SelectSeq(st.arr, LAMBDA b : b.id \notin st.consumed)

\* ------------------------------------------------------------ pushState()
\* the keys of playerMasses in insertion order (lines 572-575): each player id
\* at the first blob that carries it
RECURSIVE ownersFrom(_, _, _)
ownersFrom(arr, i, seen) ==
    IF i > Len(arr) THEN seen
    ELSE IF \E k \in DOMAIN seen : seen[k] = arr[i].playerId
         THEN ownersFrom(arr, i + 1, seen)
         ELSE ownersFrom(arr, i + 1, Append(seen, arr[i].playerId))

owners(arr) == ownersFrom(arr, 1, <<>>)

\* playerMasses.get(playerId): the masses of the player's blobs, summed
RECURSIVE massFrom(_, _, _)
massFrom(arr, i, pid) ==
    IF i > Len(arr) THEN 0
    ELSE (IF arr[i].playerId = pid THEN arr[i].mass ELSE 0) + massFrom(arr, i + 1, pid)

playerMass(arr, pid) == massFrom(arr, 1, pid)

\* Math.floor(mass)
floorMass(mass) == mass \div MassScale

\* this.playerNames.get(playerId) || 'Unknown'
nameOrUnknown(names, pid) ==
    IF pid \in DOMAIN names /\ names[pid] # "" THEN names[pid] ELSE "Unknown"

\* the entry of line 577-581 for one player
entryOf(arr, names, pid) ==
    [playerId |-> pid, name |-> nameOrUnknown(names, pid),
     mass |-> floorMass(playerMass(arr, pid))]

\* a comparator that puts the later of two equal entries first
keepsOrderStrict(a, b) == b.mass - a.mass < 0

\* the comparator (a, b) => b.mass - a.mass of line 581: a stays before b
keepsOrder(a, b) == b.mass - a.mass <= 0

\* Array.prototype.sort is stable: e goes behind every entry it must not precede
RECURSIVE insertSorted(_, _, _)
insertSorted(sorted, e, k) ==
    IF k > Len(sorted) THEN Append(sorted, e)
    ELSE IF keepsOrder(sorted[k], e) THEN insertSorted(sorted, e, k + 1)
    ELSE SubSeq(sorted, 1, k - 1) \o <<e>> \o SubSeq(sorted, k, Len(sorted))

RECURSIVE sortFrom(_, _, _)
sortFrom(es, i, sorted) ==
    IF i > Len(es) THEN sorted
    ELSE sortFrom(es, i + 1, insertSorted(sorted, es[i], 1))

sortEntries(es) == sortFrom(es, 1, <<>>)

\* the slice left out
topEntriesAll(es) == es

\* .slice(0, 10)
topEntries(es) == SubSeq(es, 1, Min(LEADERBOARD_SIZE, Len(es)))

leaderboardOf(arr, names) ==
    LET os == owners(arr)
    IN  topEntries(sortEntries([k \in DOMAIN os |-> entryOf(arr, names, os[k])]))

\* the GameState handed to onStateUpdate (lines 583-588)
gameState(arr, fd, msgs, names) ==
    [blobs |-> arr, food |-> fd, leaderboard |-> leaderboardOf(arr, names),
     messages |-> msgs]

\* ------------------------------------------------------------ playerSplit()
playerBlobsOf(arr, pid) == SelectSeq(arr, LAMBDA b : b.playerId = pid)

\* mass -= mass in place of mass /= 2: nothing is left of the blob
halveToNothing(b, t) ==
    [b EXCEPT !.mass = 0, !.radius = massToRadius(0), !.canRecombineTime = t]

\* line 672 left out: the radius is not recomputed
halveStaleRadius(b, t) ==
    [b EXCEPT !.mass = b.mass \div 2, !.canRecombineTime = t]

\* lines 671-673: the blob halves and may not recombine before t
halve(b, t) ==
    [b EXCEPT !.mass = b.mass \div 2, !.radius = massToRadius(b.mass \div 2),
              !.canRecombineTime = t]

\* the sibling given the mass the blob had before it was halved
siblingOfWhole(p, dir, id, t) ==
    [p EXCEPT !.id = id, !.mass = 2 * p.mass, !.radius = massToRadius(2 * p.mass),
              !.pos = Vec(p.pos.x + dir.x * TruncDiv(p.radius * 25, 10),
                          p.pos.y + dir.y * TruncDiv(p.radius * 25, 10)),
              !.velocity = Vec(p.velocity.x + dir.x * Len_(SPLIT_EJECT_SPEED),
                               p.velocity.y + dir.y * Len_(SPLIT_EJECT_SPEED)),
              !.canRecombineTime = t]

\* lines 680-696: the sibling of the halved blob p, ejected along dir
sibling(p, dir, id, t) ==
    LET ejectionDistance == TruncDiv(p.radius * 25, 10)
    IN  [p EXCEPT
           !.id = id,
           !.pos = Vec(p.pos.x + dir.x * ejectionDistance,
                       p.pos.y + dir.y * ejectionDistance),
           !.velocity = Vec(p.velocity.x + dir.x * Len_(SPLIT_EJECT_SPEED),
                            p.velocity.y + dir.y * Len_(SPLIT_EJECT_SPEED)),
           !.canRecombineTime = t]

\* line 670: the blob is split
mustSplit(b, count, added, maxBlobs) ==
    b.mass >= Mass(MIN_MASS_TO_SPLIT) /\ count + added < maxBlobs

\* the forEach of lines 669-699 from blob i on; count is playerBlobs.length,
\* news is newBlobs, ids are drawn from id0 + 1 on
RECURSIVE splitFrom(_, _, _, _, _, _, _, _, _)
splitFrom(arr, i, pid, count, maxBlobs, news, dir, t, id0) ==
    IF i > Len(arr) THEN [arr |-> arr, news |-> news]
    ELSE IF arr[i].playerId = pid /\ mustSplit(arr[i], count, Len(news), maxBlobs)
    THEN LET half == halve(arr[i], t)
         IN  splitFrom([arr EXCEPT ![i] = half], i + 1, pid, count, maxBlobs,
                       Append(news, sibling(half, dir, id0 + Len(news) + 1, t)),
                       dir, t, id0)
    ELSE splitFrom(arr, i + 1, pid, count, maxBlobs, news, dir, t, id0)

\* the cap of the top tier used for every mass
splitBlobsTopCap(arr, pid, dir, t, id0) ==
    LET r == splitFrom(arr, 1, pid, Len(playerBlobsOf(arr, pid)), 16, <<>>, dir,
                       t + RECOMBINE_DELAY_MS, id0)
    IN  r.arr \o r.news

\* the cap taken one too high
splitBlobsLooseCap(arr, pid, dir, t, id0) ==
    LET mine == playerBlobsOf(arr, pid)
        maxBlobs == getMaxBlobsForMass(playerMass(arr, pid)) + 1
    IN  IF Len(mine) >= maxBlobs THEN arr
        ELSE LET r == splitFrom(arr, 1, pid, Len(mine), maxBlobs, <<>>, dir,
                                t + RECOMBINE_DELAY_MS, id0)
             IN  r.arr \o r.news

\* playerSplit as a function of the Map: the blobs afterwards (lines 660-702)
splitBlobs(arr, pid, dir, t, id0) ==
    LET mine == playerBlobsOf(arr, pid)
        maxBlobs == getMaxBlobsForMass(playerMass(arr, pid))
    IN  IF Len(mine) >= maxBlobs THEN arr
        ELSE LET r == splitFrom(arr, 1, pid, Len(mine), maxBlobs, <<>>, dir,
                                t + RECOMBINE_DELAY_MS, id0)
             IN  r.arr \o r.news

\* ------------------------------------------------------------ updatePlayerInput()
\* Math.cos and Math.sin in thousandths, of an angle in degrees taken to the
\* nearest multiple of 15
CosTable ==
    <<1000, 966, 866, 707, 500, 259, 0, -259, -500, -707, -866, -966,
      -1000, -966, -866, -707, -500, -259, 0, 259, 500, 707, 866, 966>>

cosDeg(d) == CosTable[(((d + 7) \div 15) % 24) + 1]
sinDeg(d) == cosDeg(d + 270)

\* an angle given in milliseconds / 3000 radians, in degrees
timeAngle(t) == (t * 6 * PiDen) \div (100 * PiNum)

\* the place of blob i in playerBlobs after the stable sort of line 614
rankOf(arr, i) ==
    Cardinality({k \in DOMAIN arr :
                   /\ arr[k].playerId = arr[i].playerId
                   /\ \/ arr[k].mass > arr[i].mass
                      \/ arr[k].mass = arr[i].mass /\ k < i})

\* lines 638-644: the point on the orbit around the main blob
orbitTarget(main, b, rank, count, t) ==
    LET orbitDistance == main.radius + b.radius + Len_(15)
        angle == (360 * (rank - 1)) \div (count - 1) + timeAngle(t)
    IN  Vec(main.pos.x + TruncDiv(cosDeg(angle) * orbitDistance, 1000),
            main.pos.y + TruncDiv(sinDeg(angle) * orbitDistance, 1000))

\* line 651: Math.min(distToTarget * 0.1, 5 / (1 + mass * 0.01))
speedLimit(mass) == (Len_(5) * 100 * MassScale) \div (100 * MassScale + mass)

steerSpeed(dist, mass) == Min(dist \div 10, speedLimit(mass))

\* the blob put on its target at once instead of being steered toward it
\* the velocity is set to the target velocity at once, without easing
steerSnap(b, target) ==
    LET dist == distance(b.pos, target)
        speed == Min(dist \div 10, speedLimit(b.mass))
    IN  IF dist > Len_(1)
        THEN [b EXCEPT !.velocity =
                 Vec(TruncDiv((target.x - b.pos.x) * speed, dist),
                     TruncDiv((target.y - b.pos.y) * speed, dist))]
        ELSE b

steerTeleport(b, target) == [b EXCEPT !.pos = target]

\* lines 648-656: the blob's velocity eased toward the target
steer(b, target) ==
    LET dist == distance(b.pos, target)
        speed == steerSpeed(dist, b.mass)
    IN  IF dist > Len_(1)
        THEN [b EXCEPT !.velocity =
                 Vec(lerp(b.velocity.x, TruncDiv((target.x - b.pos.x) * speed, dist), 15),
                     lerp(b.velocity.y, TruncDiv((target.y - b.pos.y) * speed, dist), 15))]
        ELSE b

\* updatePlayerInput as a function of the Map (lines 610-658).  mouse is the
\* mouse position relative to the window centre, and lag the main blob's
\* position relative to the camera, both in world lengths (camera.zoom = 1).
steerBlobs(arr, pid, mouse, lag, t) ==
    LET count == Len(playerBlobsOf(arr, pid))
        main == arr[CHOOSE i \in DOMAIN arr : arr[i].playerId = pid /\ rankOf(arr, i) = 0]
        isMouseOverMainBlob == distance(mouse, lag) < main.radius
        mouseInWorld == Vec(main.pos.x + mouse.x, main.pos.y + mouse.y)
        targetOf(i) ==
            IF rankOf(arr, i) = 0 THEN mouseInWorld
            ELSE IF isMouseOverMainBlob THEN main.pos
            ELSE orbitTarget(main, arr[i], rankOf(arr, i), count, t)
    IN  IF count = 0 THEN arr
        ELSE [i \in DOMAIN arr |->
                IF arr[i].playerId = pid THEN steer(arr[i], targetOf(i)) ELSE arr[i]]

\* An array of blob objects read now: pushState passes Array.from(
\* this.blobs.values()), a new array of the Map's own objects (line 570), so
\* an object that is still in the Map arr is read as it is in arr, and one
\* that has left the Map as it was left
readNow(held, arr) ==
    [i \in DOMAIN held |->
       IF \E j \in DOMAIN arr : arr[j].id = held[i].id
       THEN arr[CHOOSE j \in DOMAIN arr : arr[j].id = held[i].id]
       ELSE held[i]]

\* ------------------------------------------------------------ the WebSocket client
\* connectToServer calls allowed
MaxConnects == 2

\* animation frames drawn
MaxFrames == 2

\* camera zoom is kept in hundredths
ZoomScale == 100

\* a WebSocket made by connectToServer (lines 92-150): its readyState, the
\* gameState its handlers closed over (the callback's dependency, line 151),
\* whether an error event is due, and which statement closed it
Socket(readyState, captured) ==
    [readyState |-> readyState, captured |-> captured, failed |-> FALSE,
     closedBy |-> "none"]

\* socket.close(): a socket that is connecting or open starts closing; closing
\* one that has not connected yet fails the connection, which fires error
\* before close
closeSocket(s, why) ==
    IF s.readyState \in {"CONNECTING", "OPEN"}
    THEN [s EXCEPT !.readyState = "CLOSING",
                   !.failed = (s.readyState = "CONNECTING"),
                   !.closedBy = why]
    ELSE s

\* socketRef.current?.close() over the sockets made so far
closeCurrent(sockets, why) ==
    IF sockets = <<>> THEN sockets
    ELSE [sockets EXCEPT ![Len(sockets)] = closeSocket(sockets[Len(sockets)], why)]

\* playerIdRef before 'init' (null), the player id the server hands out in
\* 'init', and another player's
NoId == ""
ServerId == "p1"
OtherId == "p2"

\* a blob as the 'gameState' message carries it
WireBlob(ownerId, pos, mass) == [ownerId |-> ownerId, pos |-> pos, mass |-> mass]

\* the snapshots the server sends
GameDatas ==
    LET at == Vec(Len_(1000), Len_(2000))
    IN  {<<>>,
         <<WireBlob(ServerId, at, 20)>>,
         <<WireBlob(ServerId, at, 0)>>,
         <<WireBlob(ServerId, at, 0), WireBlob(OtherId, Vec(0, 0), 30)>>}

\* the component after its first render and effects (lines 58-77, 252-262)
NewClient ==
    [gameState |-> "start",
     score |-> 0,
     sockets |-> <<>>,
     playerIdRef |-> NoId,
     gameDataRef |-> <<>>,
     cameraRef |-> [x |-> 0, y |-> 0, zoom |-> ZoomScale],
     animationFrameId |-> FALSE,
     effectFor |-> "start",
     mounted |-> TRUE,
     frames |-> 0]

RECURSIVE sumSeq(_)
sumSeq(nums) == IF nums = <<>> THEN 0 ELSE nums[1] + sumSeq(Tail(nums))

\* the camera after one frame centres it on the player's blobs (lines 162-184)
cameraAfter(camera, data, playerId) ==
    LET myBlobs == SelectSeq(data, LAMBDA b : b.ownerId = playerId)
        totalPlayerMass == sumSeq([i \in DOMAIN myBlobs |-> myBlobs[i].mass])
        sumX == sumSeq([i \in DOMAIN myBlobs |-> myBlobs[i].pos.x * myBlobs[i].mass])
        sumY == sumSeq([i \in DOMAIN myBlobs |-> myBlobs[i].pos.y * myBlobs[i].mass])
        centerOfMass ==
            IF totalPlayerMass > 0
            THEN Vec(TruncDiv(sumX, totalPlayerMass), TruncDiv(sumY, totalPlayerMass))
            ELSE Vec(sumX, sumY)
        radius == massToRadius(
                     (IF totalPlayerMass = 0 THEN INITIAL_PLAYER_MASS
                      ELSE totalPlayerMass) * MassScale)
        targetZoom == Max(20, (30 * LenScale * ZoomScale) \div radius)
    IN  [x |-> IF myBlobs # <<>> THEN lerp(camera.x, centerOfMass.x, 10) ELSE camera.x,
         y |-> IF myBlobs # <<>> THEN lerp(camera.y, centerOfMass.y, 10) ELSE camera.y,
         zoom |-> lerp(camera.zoom, targetZoom, 10)]

\* ------------------------------------------------------------ the App over the embedded server
\* the component after its first render (lines 712-725); its lifecycle effect
\* (lines 728-733) is the start action
NewUi ==
    [uiState |-> "start", playerIdRef |-> EmptyId, score |-> 0,
     effectFor |-> <<"start", 0>>]

\* ------------------------------------------------------------ actions
Init ==
    /\ blobs = <<>>
    /\ food = pushBatch(<<>>, FOOD_COUNT, InitNearFood)
    /\ messages = <<>>
    /\ tickInterval = Null
    /\ playerNames = <<>>
    /\ published = <<>>
    /\ timers = {}
    /\ now = 0
    /\ ticks = 0
    /\ joins = 0
    /\ splitCalls = 0
    /\ starts = 0
    /\ inputs = 0
    /\ nextBlob = 0
    /\ resolved = <<>>
    /\ pushes = 0
    /\ snapshotBlobs = <<>>
    /\ frame = [pc |-> "idle", consumed |-> {}, i |-> 0, j |-> 0, entry |-> <<>>]
    /\ client = NewClient
    /\ ui = NewUi

\* a second setInterval although a timer is running: line 486 left out
startAlways ==
    /\ tickInterval' = starts + 1
    /\ timers' = timers \cup {starts + 1}
    /\ starts' = starts + 1
    /\ UNCHANGED <<blobs, food, messages, playerNames, published, now, ticks,
                   joins, splitCalls, nextBlob, inputs, resolved,
                   pushes, snapshotBlobs, frame, client, ui>>

\* start(), lines 485-488; window.setInterval returns a fresh id above zero,
\* here the number of the start() call
start ==
    /\ IF tickInterval # Null
       THEN UNCHANGED <<tickInterval, timers>>
       ELSE /\ tickInterval' = starts + 1
            /\ timers' = timers \cup {starts + 1}
    /\ starts' = starts + 1
    /\ UNCHANGED <<blobs, food, messages, playerNames, published, now, ticks,
                   joins, splitCalls, nextBlob, inputs, resolved,
                   pushes, snapshotBlobs, frame, client, ui>>

\* a clearInterval that cancels nothing
clearIntervalKeeps(ts, id) == ts

\* the timers clearInterval(id) leaves scheduled
clearInterval(ts, id) == ts \ {id}

\* stop(), lines 490-495
stop ==
    /\ IF tickInterval # Null
       THEN /\ timers' = clearInterval(timers, tickInterval)
            /\ tickInterval' = Null
       ELSE UNCHANGED <<tickInterval, timers>>
    /\ UNCHANGED <<blobs, food, messages, playerNames, published, now, ticks,
                   joins, splitCalls, starts, nextBlob, inputs, resolved,
                   pushes, snapshotBlobs, frame, client, ui>>

\* tick(), lines 497-567; as many of the new food items as the draw allows
\* land at NearSpot, the others at FarSpot
tick ==
    LET ate == eatAll(movement(blobs), food, 1)
        k == missingFood(ate.food)
        scan == resolvePairs(ate.blobs, now)
    IN  /\ blobs' = survivors(scan)
        /\ \E near \in NearDraws(k) : food' = pushBatch(ate.food, k, near)
        /\ published' = <<gameState(blobs', food', messages, playerNames)>>
        /\ ticks' = ticks + 1
        /\ resolved' = scan.log
        /\ pushes' = pushes + 1
        /\ snapshotBlobs' = blobs'
        /\ UNCHANGED <<messages, tickInterval, playerNames, timers, now, joins,
                       splitCalls, starts, nextBlob, inputs, frame, client, ui>>

\* a scheduled interval timer fires and runs its callback, line 487
TimerFires == timers # {} /\ tick

\* connectPlayer(name), lines 592-599, the new blob at pos
connectPlayer(name, pos) ==
    LET playerId == PlayerId(name, now)
        blob == createBlob(playerId, name, pos, nextBlob + 1, now)
    IN  /\ playerNames' = (playerId :> name) @@ playerNames
        /\ blobs' = Append(blobs, blob)
        /\ nextBlob' = nextBlob + 1
        /\ published' = <<gameState(blobs', food, messages, playerNames')>>
        /\ joins' = joins + 1
        /\ pushes' = pushes + 1
        /\ snapshotBlobs' = blobs'
        /\ UNCHANGED <<food, messages, tickInterval, timers, now, ticks,
                       splitCalls, starts, inputs, resolved, frame, client, ui>>

\* the test of line 603 turned round: the blobs of the others are deleted
leaveBlobsOfOthers(arr, playerId) == SelectSeq(arr, LAMBDA b : b.playerId = playerId)

\* only the first blob of the player found is deleted
leaveBlobsFirst(arr, playerId) ==
    IF \E i \in DOMAIN arr : arr[i].playerId = playerId
    THEN LET k == CHOOSE i \in DOMAIN arr :
                    /\ arr[i].playerId = playerId
                    /\ \A j \in 1 .. i - 1 : arr[j].playerId # playerId
         IN  SubSeq(arr, 1, k - 1) \o SubSeq(arr, k + 1, Len(arr))
    ELSE arr

\* lines 602-606: every blob of the player is deleted from the Map
leaveBlobs(arr, playerId) == SelectSeq(arr, LAMBDA b : b.playerId # playerId)

\* line 607: this.playerNames.delete(playerId)
leaveNames(names, playerId) == [p \in DOMAIN names \ {playerId} |-> names[p]]

\* disconnectPlayer with a pushState() call at its end, as connectPlayer has
disconnectPlayerPushes(playerId) ==
    /\ blobs' = leaveBlobs(blobs, playerId)
    /\ playerNames' = leaveNames(playerNames, playerId)
    /\ published' = <<gameState(blobs', food, messages, playerNames')>>
    /\ pushes' = pushes + 1
    /\ snapshotBlobs' = blobs'
    /\ UNCHANGED <<food, messages, tickInterval, timers, now, ticks,
                   joins, splitCalls, starts, nextBlob, inputs, resolved,
                   frame, client, ui>>

\* disconnectPlayer(playerId), lines 601-608
disconnectPlayer(playerId) ==
    /\ blobs' = leaveBlobs(blobs, playerId)
    /\ playerNames' = leaveNames(playerNames, playerId)
    /\ UNCHANGED <<food, messages, tickInterval, published, timers, now, ticks,
                   joins, splitCalls, starts, nextBlob, inputs, resolved,
                   pushes, snapshotBlobs, frame, client, ui>>

\* playerSplit(playerId, mousePos, windowSize, camera), lines 660-702, with the
\* mouse in direction dir from the window centre
playerSplit(playerId, dir) ==
    /\ blobs' = splitBlobs(blobs, playerId, dir, now, nextBlob)
    /\ nextBlob' = nextBlob + (Len(blobs') - Len(blobs))
    /\ splitCalls' = IF Len(blobs') > Len(blobs) THEN splitCalls + 1 ELSE splitCalls
    /\ snapshotBlobs' = readNow(snapshotBlobs, blobs')
    /\ UNCHANGED <<food, messages, tickInterval, playerNames, published, timers,
                   now, ticks, joins, starts, inputs, resolved,
                   pushes, frame, client, ui>>

\* updatePlayerInput(playerId, mousePos, windowSize, camera), lines 610-658
updatePlayerInput(playerId, mouse, lag) ==
    /\ blobs' = steerBlobs(blobs, playerId, mouse, lag, now)
    /\ inputs' = IF blobs' # blobs THEN inputs + 1 ELSE inputs
    /\ snapshotBlobs' = readNow(snapshotBlobs, blobs')
    /\ UNCHANGED <<food, messages, tickInterval, playerNames, published, timers,
                   now, ticks, joins, splitCalls, starts, nextBlob, resolved,
                   pushes, frame, client, ui>>

\* slice(0, 10) in place of slice(-10): the first ten are kept
lastMessagesFirst(msgs) == SubSeq(msgs, 1, Min(MESSAGE_LOG_SIZE, Len(msgs)))

\* addMessage(name, text, color), lines 704-707
lastMessages(msgs) ==
    SubSeq(msgs, Max(1, Len(msgs) - MESSAGE_LOG_SIZE + 1), Len(msgs))

addMessage(name, text) ==
    /\ messages' = lastMessages(Append(messages, [name |-> name, text |-> text]))
    /\ UNCHANGED <<blobs, food, tickInterval, playerNames, published, timers,
                   now, ticks, joins, splitCalls, starts, inputs, nextBlob, resolved,
                   pushes, snapshotBlobs, frame, client, ui>>

\* Date.now() moves on to a later reading
ClockAdvances(t) ==
    /\ t > now
    /\ now' = t
    /\ UNCHANGED <<blobs, food, messages, tickInterval, playerNames, published,
                   timers, ticks, joins, splitCalls, starts, nextBlob, inputs, resolved,
                   pushes, snapshotBlobs, frame, client, ui>>

\* ------------------------------------------------ tick(), statement by statement
\* The activation of a tick() call: the statement it runs next and its locals;
\* entry keeps the blobs and the food the call found.
Frame(pc, consumed, i, j, entry) ==
    [pc |-> pc, consumed |-> consumed, i |-> i, j |-> j, entry |-> entry]

\* no tick() call is under way
NoFrame == Frame("idle", {}, 0, 0, <<>>)

\* every task is taken at once, whether or not a call is under way
callStackAny == TRUE

\* The event loop takes its next task, a timer callback or a call of a public
\* method, only when no call is under way; tick() has no await and no yield
\* (lines 497-567), so a tick() call is left only at its end.
callStackEmpty == frame.pc = "idle"

\* the order the spec gives: the top-up after the whole of collision resolution
statementAfterResolved(pc) ==
    CASE pc = "movement" -> "food"
      [] pc = "food" -> "pairs"
      [] pc = "pairs" -> "delete"
      [] pc = "delete" -> "topup"
      [] pc = "topup" -> "push"
      [] pc = "push" -> "idle"

\* the statements of tick() in the order of the text: MOVEMENT (501-508),
\* Blob vs Food (512-521), the top-up (522-524), Blob vs Blob (527-560), the
\* delete (561-563), pushState (566)
statementAfter(pc) ==
    CASE pc = "movement" -> "food"
      [] pc = "food" -> "topup"
      [] pc = "topup" -> "pairs"
      [] pc = "pairs" -> "delete"
      [] pc = "delete" -> "push"
      [] pc = "push" -> "idle"

\* what no statement of tick() writes
tickKeeps ==
    UNCHANGED <<messages, tickInterval, playerNames, timers, now, joins,
                splitCalls, starts, nextBlob, inputs, client, ui>>

\* the timer callback of line 487 begins tick(): lines 498-508
tickMovement ==
    /\ callStackEmpty
    /\ timers # {}
    /\ blobs' = movement(blobs)
    /\ frame' = Frame(statementAfter("movement"), {}, 1, 2,
                      [blobs |-> blobs, food |-> food])
    /\ resolved' = <<>>
    /\ snapshotBlobs' = readNow(snapshotBlobs, blobs')
    /\ UNCHANGED <<food, published, ticks, pushes>>
    /\ tickKeeps

\* lines 512-521
tickFood ==
    /\ frame.pc = "food"
    /\ LET ate == eatAll(blobs, food, 1)
       IN  /\ blobs' = ate.blobs
           /\ food' = ate.food
    /\ frame' = [frame EXCEPT !.pc = statementAfter("food")]
    /\ snapshotBlobs' = readNow(snapshotBlobs, blobs')
    /\ UNCHANGED <<published, ticks, pushes, resolved>>
    /\ tickKeeps

\* lines 522-524
tickTopUp ==
    /\ frame.pc = "topup"
    /\ LET k == missingFood(food)
       IN  \E near \in NearDraws(k) : food' = pushBatch(food, k, near)
    /\ frame' = [frame EXCEPT !.pc = statementAfter("topup")]
    /\ UNCHANGED <<blobs, published, ticks, pushes, resolved, snapshotBlobs>>
    /\ tickKeeps

\* lines 528-560, one test of a loop condition with the loop body it admits
tickPair ==
    /\ frame.pc = "pairs"
    /\ IF frame.i > Len(blobs)
       THEN /\ frame' = [frame EXCEPT !.pc = statementAfter("pairs")]
            /\ UNCHANGED <<blobs, resolved>>
       ELSE IF frame.j > Len(blobs)
       THEN /\ frame' = [frame EXCEPT !.i = frame.i + 1, !.j = frame.i + 2]
            /\ UNCHANGED <<blobs, resolved>>
       ELSE LET st == resolvePair([arr |-> blobs, consumed |-> frame.consumed,
                                   log |-> resolved], frame.i, frame.j, now)
            IN  /\ blobs' = st.arr
                /\ resolved' = st.log
                /\ frame' = [frame EXCEPT !.consumed = st.consumed, !.j = frame.j + 1]
    /\ snapshotBlobs' = readNow(snapshotBlobs, blobs')
    /\ UNCHANGED <<food, published, ticks, pushes>>
    /\ tickKeeps

\* lines 561-563
tickDelete ==
    /\ frame.pc = "delete"
    /\ blobs' = survivors([arr |-> blobs, consumed |-> frame.consumed])
    /\ frame' = [frame EXCEPT !.pc = statementAfter("delete")]
    /\ UNCHANGED <<food, published, ticks, pushes, resolved, snapshotBlobs>>
    /\ tickKeeps

\* line 566, and the return of tick()
tickPush ==
    /\ frame.pc = "push"
    /\ published' = <<gameState(blobs, food, messages, playerNames)>>
    /\ pushes' = pushes + 1
    /\ snapshotBlobs' = blobs
    /\ ticks' = ticks + 1
    /\ frame' = NoFrame
    /\ UNCHANGED <<blobs, food, resolved>>
    /\ tickKeeps

\* the ids of the players that actions are submitted for: those with a record
\* or a blob, and one that has neither
GhostId == PlayerId("a", -1)
KnownIds == DOMAIN playerNames \cup {blobs[i].playerId : i \in DOMAIN blobs}

\* The game: the server is started once and never stopped
Next ==
    \/ starts < 1 /\ start
    \/ ticks < MaxTicks /\ TimerFires
    \/ joins < MaxJoins /\ \E name \in Names, pos \in SpawnSpots : connectPlayer(name, pos)
    \/ \E pid \in KnownIds \cup {GhostId} : disconnectPlayer(pid)
    \/ splitCalls < MaxSplitCalls
         /\ \E pid \in KnownIds \cup {GhostId}, dir \in Dirs : playerSplit(pid, dir)
    \/ inputs < MaxInputs
         /\ \E pid \in KnownIds \cup {GhostId}, mouse \in Mice, lag \in Lags :
               updatePlayerInput(pid, mouse, lag)
    \/ Len(messages) < MaxMessages /\ \E text \in Texts : addMessage("a", text)
    \/ \E t \in Times : ClockAdvances(t)

Spec == Init /\ [][Next]_vars

\* The play: players join, steer toward the left, split and leave between
\* ticks at one reading of the clock
NextPlay ==
    \/ starts < 1 /\ start
    \/ ticks < MaxTicks /\ TimerFires
    \/ joins < MaxJoins /\ \E name \in Names, pos \in SpawnSpots : connectPlayer(name, pos)
    \/ \E pid \in KnownIds \cup {GhostId} : disconnectPlayer(pid)
    \/ splitCalls < MaxSplitCalls
         /\ \E pid \in KnownIds \cup {GhostId}, dir \in Dirs : playerSplit(pid, dir)
    \/ inputs < MaxInputs
         /\ \E pid \in KnownIds \cup {GhostId} :
               updatePlayerInput(pid, Vec(-Len_(75), 0), Vec(0, 0))

SpecPlay == Init /\ [][NextPlay]_vars

\* The game with tick() run statement by statement: a timer callback and a
\* call of a public method are tasks of the event loop; the clock reading
\* changes between tasks (a tick() call is short), here once, to a reading
\* past the recombine delay
NextPhases ==
    \/ callStackEmpty /\ starts < 1 /\ start
    \/ ticks < MaxTicks /\ tickMovement
    \/ tickFood
    \/ tickTopUp
    \/ tickPair
    \/ tickDelete
    \/ tickPush
    \/ callStackEmpty /\ joins < MaxRankJoins
         /\ \E pos \in SpawnSpots : connectPlayer(Guests[joins + 1], pos)
    \/ callStackEmpty /\ \E pid \in KnownIds : disconnectPlayer(pid)
    \/ callStackEmpty /\ splitCalls < MaxSplitCalls
         /\ \E pid \in KnownIds, dir \in Dirs : playerSplit(pid, dir)
    \/ callStackEmpty /\ ClockAdvances(RECOMBINE_DELAY_MS + MaxClockTicks)

SpecPhases == Init /\ [][NextPhases]_vars

\* The chat: one player sends the lines of ChatLines one after the other while
\* ticks publish snapshots
ChatLines ==
    <<"m01", "m02", "m03", "m04", "m05", "m06", "m07", "m08", "m09", "m10",
      "m11", "m12", "m13", "m14", "m15", "m16">>

\* the number of the line text in ChatLines
lineNumber(text) == CHOOSE k \in DOMAIN ChatLines : ChatLines[k] = text

\* the number of lines sent so far
sentLines == IF messages = <<>> THEN 0 ELSE lineNumber(messages[Len(messages)].text)

NextChat ==
    \/ starts < 1 /\ start
    \/ ticks < MaxTicks /\ TimerFires
    \/ sentLines < MaxChat /\ addMessage("a", ChatLines[sentLines + 1])

SpecChat == Init /\ [][NextChat]_vars

\* The rim: the food array of the constructor holds RimFood items at RimSpot,
\* either before or after the items at NearSpot
RimFoods ==
    {pushFood(pushFood(pushFood(<<>>, createFood(NearSpot), InitNearFood),
                       createFood(RimSpot), RimFood),
              createFood(FarSpot), FOOD_COUNT - InitNearFood - RimFood),
     pushFood(pushFood(pushFood(<<>>, createFood(RimSpot), RimFood),
                       createFood(NearSpot), InitNearFood),
              createFood(FarSpot), FOOD_COUNT - InitNearFood - RimFood)}

InitRim ==
    /\ blobs = <<>>
    /\ food \in RimFoods
    /\ messages = <<>>
    /\ tickInterval = Null
    /\ playerNames = <<>>
    /\ published = <<>>
    /\ timers = {}
    /\ now = 0
    /\ ticks = 0
    /\ joins = 0
    /\ splitCalls = 0
    /\ starts = 0
    /\ inputs = 0
    /\ nextBlob = 0
    /\ resolved = <<>>
    /\ pushes = 0
    /\ snapshotBlobs = <<>>
    /\ frame = NoFrame
    /\ client = NewClient
    /\ ui = NewUi

NextRim ==
    \/ starts < 1 /\ start
    \/ ticks < MaxTicks /\ TimerFires
    \/ joins < MaxJoins /\ \E name \in Names, pos \in SpawnSpots : connectPlayer(name, pos)
    \/ \E pid \in KnownIds : disconnectPlayer(pid)

SpecRim == InitRim /\ [][NextRim]_vars

\* The radius: a lone player that has eaten its way to some mass, drawn in
\* whole units between the mass of a new blob and MaxProbeMass, plays on
ProbeMasses == {Mass(m) : m \in INITIAL_PLAYER_MASS .. MaxProbeMass}

InitProbe ==
    /\ \E m \in ProbeMasses :
         blobs = <<gain(createBlob(PlayerId("a", 0), "a", LoneSpot, 1, 0),
                        m - Mass(INITIAL_PLAYER_MASS))>>
    /\ food = pushBatch(<<>>, FOOD_COUNT, InitNearFood)
    /\ messages = <<>>
    /\ tickInterval = Null
    /\ playerNames = (PlayerId("a", 0) :> "a")
    /\ published = <<>>
    /\ timers = {}
    /\ now = 0
    /\ ticks = 0
    /\ joins = 1
    /\ splitCalls = 0
    /\ starts = 0
    /\ inputs = 0
    /\ nextBlob = 1
    /\ resolved = <<>>
    /\ pushes = 0
    /\ snapshotBlobs = <<>>
    /\ frame = NoFrame
    /\ client = NewClient
    /\ ui = NewUi

NextProbe ==
    \/ starts < 1 /\ start
    \/ ticks < 1 /\ TimerFires
    \/ splitCalls < MaxSplitCalls /\ \E pid \in KnownIds : playerSplit(pid, East)

SpecProbe == InitProbe /\ [][NextProbe]_vars

\* The scheduler: start() and stop() are called in any order while timers
\* fire, players join and chat
NextSched ==
    \/ starts < MaxStarts /\ start
    \/ stop
    \/ ticks < MaxTicks /\ TimerFires
    \/ joins < MaxJoins /\ \E name \in Names, pos \in SpawnSpots : connectPlayer(name, pos)
    \/ Len(messages) < MaxMessages /\ \E text \in Texts : addMessage("a", text)

SpecSched == Init /\ [][NextSched]_vars

\* The ranking: up to MaxRankJoins players, each with a name of its own, join
\* at the food, where a split piece lands, or away from both, and split
NextRank ==
    \/ starts < 1 /\ start
    \/ ticks < MaxTicks /\ TimerFires
    \/ joins < MaxRankJoins /\ \E pos \in RankSpots : connectPlayer(Guests[joins + 1], pos)
    \/ splitCalls < MaxSplitCalls /\ \E pid \in KnownIds : playerSplit(pid, West)

SpecRank == Init /\ [][NextRank]_vars

\* the names a joining player of the crowded game may take: the next unused
\* one, or, while fewer than MaxTwins blobs share their owner with an earlier
\* blob, the name of the player that joined last (at the same Date.now() the
\* same player id)
twins(arr) == Len(arr) - Len(owners(arr))
CrowdNames ==
    {Guests[joins + 1]} \cup
    (IF joins > 0 /\ twins(blobs) < MaxTwins THEN {Guests[joins]} ELSE {})

\* the spawn positions of the crowded game: the first two players may spawn at
\* the food, the others spawn away from everything
CrowdSpots == IF joins < 2 THEN {NearSpot, LoneSpot} ELSE {LoneSpot}

\* the players that leave the crowded game: the owner of the oldest blob
CrowdLeavers == {blobs[i].playerId : i \in DOMAIN blobs \cap {1}}

\* The crowded game: more players than the leaderboard has lines
NextBoard ==
    \/ starts < 1 /\ start
    \/ ticks < MaxTicks /\ TimerFires
    \/ joins < MaxBoardJoins /\ \E name \in CrowdNames, pos \in CrowdSpots : connectPlayer(name, pos)
    \/ \E pid \in CrowdLeavers : disconnectPlayer(pid)

SpecBoard == Init /\ [][NextBoard]_vars

\* ------------------------------------------------------------ WebSocket client: handlers
\* the embedded server and its App are not part of the WebSocket client
serverKeeps ==
    UNCHANGED <<blobs, food, messages, tickInterval, playerNames, published,
                timers, now, ticks, joins, splitCalls, starts, inputs, nextBlob,
                resolved, pushes, snapshotBlobs, frame>>

\* the sockets on which an event can still fire
SocketIds == DOMAIN client.sockets

\* connectToServer(), lines 86-151: the Play button of the start screen (line
\* 306).  The handlers it installs close over the gameState of the render the
\* callback was made in.
connectToServer ==
    /\ client.mounted
    /\ client.gameState = "start"
    /\ client' = [client EXCEPT
                    !.gameState = "connecting",
                    !.sockets = Append(closeCurrent(client.sockets, "connectToServer"),
                                       Socket("CONNECTING", client.gameState))]
    /\ UNCHANGED ui
    /\ serverKeeps

\* socket.onopen, lines 95-98: the join message is sent
onopen(k) ==
    /\ client.mounted
    /\ client.sockets[k].readyState = "CONNECTING"
    /\ client' = [client EXCEPT !.sockets[k].readyState = "OPEN"]
    /\ UNCHANGED ui
    /\ serverKeeps

\* socket.onmessage with an 'init' message, lines 113-116
onmessageInit(k) ==
    /\ client.mounted
    /\ client.sockets[k].readyState = "OPEN"
    /\ client' = [client EXCEPT !.playerIdRef = ServerId, !.gameState = "playing"]
    /\ UNCHANGED ui
    /\ serverKeeps

\* socket.onmessage with a 'gameState' message, lines 117-119
onmessageGameState(k, data) ==
    /\ client.mounted
    /\ client.sockets[k].readyState = "OPEN"
    /\ client' = [client EXCEPT !.gameDataRef = data]
    /\ UNCHANGED ui
    /\ serverKeeps

\* socket.onmessage with a 'playerDied' message, lines 128-133
onmessagePlayerDied(k, playerId) ==
    /\ client.mounted
    /\ client.sockets[k].readyState = "OPEN"
    /\ client' = IF playerId = client.playerIdRef
                 THEN [client EXCEPT
                         !.gameState = "gameOver",
                         !.sockets[k] = closeSocket(client.sockets[k], "playerDied")]
                 ELSE client
    /\ UNCHANGED ui
    /\ serverKeeps

\* socket.onerror, lines 140-143: the error event of a connection closed before
\* it was made, or of a connection the network broke (the close event follows)
onerror(k) ==
    /\ client.mounted
    /\ \/ client.sockets[k].failed
       \/ client.sockets[k].readyState \in {"CONNECTING", "OPEN"}
    /\ client' = [client EXCEPT
                    !.gameState = "disconnected",
                    !.sockets[k] =
                        IF client.sockets[k].failed
                        THEN [client.sockets[k] EXCEPT !.failed = FALSE]
                        ELSE [client.sockets[k] EXCEPT !.readyState = "CLOSING",
                                                     !.closedBy = "network"]]
    /\ UNCHANGED ui
    /\ serverKeeps

\* socket.onclose, lines 145-150: the close event of a socket that close() was
\* called on, or that the server closed
onclose(k) ==
    /\ client.mounted
    /\ \/ client.sockets[k].readyState = "CLOSING" /\ ~client.sockets[k].failed
       \/ client.sockets[k].readyState = "OPEN"
    /\ client' = [client EXCEPT
                    !.gameState = IF client.sockets[k].captured = "playing"
                                  THEN "disconnected" ELSE client.gameState,
                    !.sockets[k] =
                        [client.sockets[k] EXCEPT
                           !.readyState = "CLOSED",
                           !.closedBy = IF client.sockets[k].readyState = "OPEN"
                                        THEN "network" ELSE @]]
    /\ UNCHANGED ui
    /\ serverKeeps

\* the listener effect, lines 252-274, run again because gameState is not the
\* one it last ran for: the cleanup of the earlier run (lines 264-273), then
\* the body (lines 253-262)
listenerEffect ==
    /\ client.mounted
    /\ client.effectFor # client.gameState
    /\ client' = [client EXCEPT
                    !.sockets = closeCurrent(client.sockets, "cleanup"),
                    !.animationFrameId = (client.gameState = "playing"),
                    !.effectFor = client.gameState]
    /\ UNCHANGED ui
    /\ serverKeeps

\* gameLoop(), lines 161-222, as an animation frame: the camera and the score
\* (the drawing writes nothing the component keeps)
gameLoop ==
    /\ client.mounted
    /\ client.animationFrameId
    /\ LET myBlobs == SelectSeq(client.gameDataRef,
                                LAMBDA b : b.ownerId = client.playerIdRef)
       IN  client' = [client EXCEPT
                        !.cameraRef = cameraAfter(client.cameraRef, client.gameDataRef,
                                                  client.playerIdRef),
                        !.score = sumSeq([i \in DOMAIN myBlobs |-> myBlobs[i].mass]),
                        !.frames = client.frames + 1]
    /\ UNCHANGED ui
    /\ serverKeeps

\* resetAndGoToStart(), lines 276-283: the Main Menu button (line 321)
resetAndGoToStart ==
    /\ client.mounted
    /\ client.gameState \in {"gameOver", "disconnected"}
    /\ client' = [client EXCEPT !.gameState = "start", !.score = 0,
                                !.gameDataRef = <<>>, !.playerIdRef = NoId]
    /\ UNCHANGED ui
    /\ serverKeeps

\* the component is unmounted: the cleanup of the listener effect, lines 264-273
unmount ==
    /\ client.mounted
    /\ client' = [client EXCEPT
                    !.mounted = FALSE,
                    !.animationFrameId = FALSE,
                    !.sockets = closeCurrent(client.sockets, "unmount")]
    /\ UNCHANGED ui
    /\ serverKeeps

NextSocket ==
    \/ Len(client.sockets) < MaxConnects /\ connectToServer
    \/ \E k \in SocketIds : onopen(k)
    \/ \E k \in SocketIds : onmessageInit(k)
    \/ \E k \in SocketIds, data \in GameDatas : onmessageGameState(k, data)
    \/ \E k \in SocketIds, playerId \in {ServerId, OtherId} : onmessagePlayerDied(k, playerId)
    \/ \E k \in SocketIds : onerror(k)
    \/ \E k \in SocketIds : onclose(k)
    \/ listenerEffect
    \/ client.frames < MaxFrames /\ gameLoop
    \/ resetAndGoToStart
    \/ unmount

SpecSocket == Init /\ [][NextSocket]_vars

\* the browser delivers the events that are due and React runs the effects
\* that are due
SocketFairness ==
    /\ WF_vars(\E k \in SocketIds : client.sockets[k].failed /\ onerror(k))
    /\ WF_vars(\E k \in SocketIds : client.sockets[k].readyState = "CLOSING" /\ onclose(k))
    /\ WF_vars(listenerEffect)

SpecSocketFair == Init /\ [][NextSocket]_vars /\ SocketFairness

\* ------------------------------------------------------------ the camera of a frame
\* where the camera is and which snapshot the client holds when a frame is drawn
Cameras ==
    {[x |-> x, y |-> y, zoom |-> zoom] :
        x \in {0, Len_(1000), Len_(WORLD_WIDTH)}, y \in {0, Len_(2000)},
        zoom \in {ZoomScale \div 2, ZoomScale}}

\* a client that plays: 'init' has arrived, the listener effect has run for
\* 'playing' and asked for animation frames
InitCamera ==
    /\ blobs = <<>>
    /\ food = pushBatch(<<>>, FOOD_COUNT, InitNearFood)
    /\ messages = <<>>
    /\ tickInterval = Null
    /\ playerNames = <<>>
    /\ published = <<>>
    /\ timers = {}
    /\ now = 0
    /\ ticks = 0
    /\ joins = 0
    /\ splitCalls = 0
    /\ starts = 0
    /\ inputs = 0
    /\ nextBlob = 0
    /\ resolved = <<>>
    /\ pushes = 0
    /\ snapshotBlobs = <<>>
    /\ frame = NoFrame
    /\ ui = NewUi
    /\ \E camera \in Cameras, data \in GameDatas :
         client = [NewClient EXCEPT
                     !.gameState = "playing",
                     !.effectFor = "playing",
                     !.animationFrameId = TRUE,
                     !.playerIdRef = ServerId,
                     !.sockets = <<closeSocket(Socket("OPEN", "start"), "cleanup")>>,
                     !.gameDataRef = data,
                     !.cameraRef = camera]

NextCamera == client.frames < MaxFrames /\ gameLoop

SpecCamera == InitCamera /\ [][NextCamera]_vars

\* ------------------------------------------------------------ the App over the embedded server: handlers
\* startGame and connectPlayer calls allowed
MaxGames == 3

\* the snapshot lacks the blob added last, as if pushState ran before
\* this.blobs.set
serverStateLate ==
    IF published = <<>> THEN Null
    ELSE [published[1] EXCEPT !.blobs = SubSeq(@, 1, Len(@) - 1)]

\* serverState: the GameState the listener of lines 729-731 stored last
serverState == IF published = <<>> THEN Null ELSE published[1]

\* the blobs of the snapshot, whoever owns them
myBlobsOfAll(state, playerId) == state.blobs

\* line 744: serverState.blobs.filter(b => b.playerId === playerIdRef.current)
myBlobs(state, playerId) ==
    SelectSeq(state.blobs, LAMBDA b : b.playerId = playerId)

\* the dependencies of the game-over effect (line 752): the snapshot, known by
\* the number of the listener call that stored it, and uiState
effectDeps == <<ui.uiState, pushes>>

\* the game-over effect, lines 742-752, run because a dependency is not the one
\* it last ran with
gameOverEffect ==
    /\ ui.effectFor # effectDeps
    /\ ui' = IF ui.uiState = "playing" /\ published # <<>> /\ ui.playerIdRef # EmptyId
             THEN IF myBlobs(serverState, ui.playerIdRef) = <<>>
                  THEN [ui EXCEPT !.uiState = "gameOver", !.effectFor = effectDeps]
                  ELSE LET mine == myBlobs(serverState, ui.playerIdRef)
                       IN  [ui EXCEPT
                              !.score = sumSeq([i \in DOMAIN mine |-> mine[i].mass])
                                          \div MassScale,
                              !.effectFor = effectDeps]
             ELSE [ui EXCEPT !.effectFor = effectDeps]
    /\ UNCHANGED client
    /\ serverKeeps

\* startGame(), lines 755-767: the Play and Play Again buttons (lines 902 and
\* 947).  The call of connectPlayer (line 756) writes what lines 592-599
\* write, the listener call of pushState included; the camera it sets is read
\* by the drawing only.
startGame(name, pos) ==
    LET id == PlayerId(name, now)
        blob == createBlob(id, name, pos, nextBlob + 1, now)
    IN  /\ ui.uiState \in {"start", "gameOver"}
        /\ playerNames' = (id :> name) @@ playerNames
        /\ blobs' = Append(blobs, blob)
        /\ nextBlob' = nextBlob + 1
        /\ published' = <<gameState(blobs', food, messages, playerNames')>>
        /\ joins' = joins + 1
        /\ pushes' = pushes + 1
        /\ snapshotBlobs' = blobs'
        /\ ui' = [ui EXCEPT !.playerIdRef = id, !.uiState = "playing",
                            !.score = INITIAL_PLAYER_MASS]
        /\ UNCHANGED <<food, messages, tickInterval, timers, now, ticks,
                       splitCalls, starts, inputs, resolved, frame, client>>

\* the local player is "a"; "b" is a player another caller connects
NextUi ==
    \/ starts < 1 /\ start
    \/ ticks < MaxTicks /\ TimerFires
    \/ joins < MaxGames /\ \E pos \in SpawnSpots : startGame("a", pos)
    \/ joins < MaxGames /\ \E pos \in SpawnSpots : connectPlayer("b", pos)
    \/ gameOverEffect

SpecUi == Init /\ [][NextUi]_vars

\* React runs an effect whose dependencies changed
SpecUiFair == Init /\ [][NextUi]_vars /\ WF_vars(gameOverEffect)

\* ------------------------------------------------------------ properties
IsTick == ticks' = ticks + 1
IsSplit == splitCalls' = splitCalls + 1

blobIds(arr) == {arr[i].id : i \in DOMAIN arr}

RECURSIVE totalMass(_)
totalMass(arr) == IF arr = <<>> THEN 0 ELSE arr[1].mass + totalMass(Tail(arr))

blobCount(arr, pid) == Len(playerBlobsOf(arr, pid))

\* the blobs as they are in a tick after movement and the blob-food pass
fedBlobs == eatAll(movement(blobs), food, 1).blobs

\* C1: the food array holds exactly FOOD_COUNT items in every state between
\* handler calls (so at the end of every tick), and so does the food of every
\* snapshot passed to the listener.
C1_FoodCount ==
    /\ foodLength(food) = FOOD_COUNT
    /\ \A k \in DOMAIN published : foodLength(published[k].food) = FOOD_COUNT

\* a tick in which a blob ate the eleven items at NearSpot has published
C1_Witness ==
    /\ ticks > 0
    /\ published # <<>>
    /\ \E i \in DOMAIN blobs : blobs[i].mass = Mass(INITIAL_PLAYER_MASS + InitNearFood)

\* C2: for every engulfment a tick makes, the two blobs have different owners,
\* the winner's mass right after is its mass right before plus the loser's mass
\* at that moment, the loser is consumed only once and wins nothing afterwards,
\* the blobs' total mass is what it was after the food pass (the mass went to
\* no other blob), and the loser is not in the Map when the tick ends.
C2_Engulfment ==
    [][IsTick =>
         /\ totalMass(blobs') = totalMass(fedBlobs)
         /\ \A k \in DOMAIN resolved' :
              resolved'[k].kind = "engulf" =>
                LET e == resolved'[k]
                IN  /\ e.winner.playerId # e.loser.playerId
                    /\ e.after.id = e.winner.id
                    /\ e.after.mass = e.winner.mass + e.loser.mass
                    /\ e.loser.id \notin blobIds(blobs')
                    /\ \A m \in DOMAIN resolved' :
                         /\ m # k => resolved'[m].loser.id # e.loser.id
                         /\ m > k => resolved'[m].winner.id # e.loser.id]_vars

\* the last tick engulfed a blob
C2_Witness == \E k \in DOMAIN resolved : resolved[k].kind = "engulf"

\* C3: a playerSplit call that adds blobs finds the player with fewer blobs
\* than getMaxBlobsForMass(T), T the player's total mass when the call begins,
\* and leaves the player with at most that many.
C3_SplitCap ==
    [][Len(blobs') > Len(blobs) /\ joins' = joins =>
         LET pid == blobs'[Len(blobs')].playerId
             cap == getMaxBlobsForMass(playerMass(blobs, pid))
         IN  /\ blobCount(blobs, pid) < cap
             /\ blobCount(blobs', pid) <= cap]_vars

\* a split has added a sibling: two blobs of one owner carry one recombine
\* time that only a split sets
C3_Witness ==
    /\ splitCalls > 0
    /\ \E i, j \in DOMAIN blobs :
         /\ i < j
         /\ blobs[i].playerId = blobs[j].playerId
         /\ blobs[i].canRecombineTime = blobs[j].canRecombineTime
         /\ blobs[i].canRecombineTime >= RECOMBINE_DELAY_MS

\* C4: a blob is absorbed by a blob of the same owner, in either branch of the
\* pair test, only at a time strictly after the canRecombineTime of both; and
\* a split sets the canRecombineTime of every blob it halves or creates to the
\* time of the call plus RECOMBINE_DELAY_MS, so the two halves are not merged
\* within 25000 ms of the split.
C4_NoEarlyMerge ==
    [][/\ IsTick =>
            \A k \in DOMAIN resolved' :
              resolved'[k].winner.playerId = resolved'[k].loser.playerId =>
                /\ resolved'[k].at > resolved'[k].winner.canRecombineTime
                /\ resolved'[k].at > resolved'[k].loser.canRecombineTime
       /\ IsSplit =>
            \A i \in DOMAIN blobs' :
              (i > Len(blobs) \/ blobs'[i] # blobs[i]) =>
                blobs'[i].canRecombineTime = now + RECOMBINE_DELAY_MS]_vars

\* the last tick merged the two halves of a split
C4_Witness ==
    \E k \in DOMAIN resolved :
      /\ resolved[k].kind = "recombine"
      /\ resolved[k].winner.canRecombineTime >= RECOMBINE_DELAY_MS
      /\ resolved[k].loser.canRecombineTime >= RECOMBINE_DELAY_MS

\* C7: every blob in the Map has radius = massToRadius(mass).
C7_RadiusOfMass ==
    \A i \in DOMAIN blobs : blobs[i].radius = massToRadius(blobs[i].mass)

\* a blob that ate, was halved by a split and then absorbed its sibling
C7_Witness ==
    /\ splitCalls > 0
    /\ \E k \in DOMAIN resolved :
         /\ resolved[k].kind = "recombine"
         /\ \E i \in DOMAIN blobs :
              /\ blobs[i].id = resolved[k].winner.id
              /\ blobs[i].mass = Mass(INITIAL_PLAYER_MASS + InitNearFood)

\* the snapshots passed to the listener: their owners, a player's summed mass
\* and the place of a player's first blob in the snapshot's blob order
ownersOf(s) == {s.blobs[i].playerId : i \in DOMAIN s.blobs}
summedMass(s, pid) == totalMass(SelectSeq(s.blobs, LAMBDA b : b.playerId = pid))
firstBlob(s, pid) ==
    CHOOSE i \in DOMAIN s.blobs :
      /\ s.blobs[i].playerId = pid
      /\ \A j \in 1 .. i - 1 : s.blobs[j].playerId # pid

\* C5 as claimed: in every snapshot, of two players on the leaderboard the
\* one with the strictly greater summed blob mass is listed first, and players
\* with equal summed mass are listed in the order of their first blobs.
C5_BySummedMass ==
    \A k \in DOMAIN published :
      LET s == published[k]
          lb == s.leaderboard
      IN  \A i, j \in DOMAIN lb :
            LET mi == summedMass(s, lb[i].playerId)
                mj == summedMass(s, lb[j].playerId)
            IN  /\ mi > mj => i < j
                /\ (mi = mj /\ firstBlob(s, lb[i].playerId) < firstBlob(s, lb[j].playerId))
                     => i < j

\* C5 as amended: in every snapshot, every leaderboard entry's mass is the
\* floor of its player's summed blob mass, the entries are in descending order
\* of that floored mass, and entries with equal floored mass are in the order
\* of their players' first blobs.
C5_ByFlooredMass ==
    \A k \in DOMAIN published :
      LET s == published[k]
          lb == s.leaderboard
      IN  /\ \A i \in DOMAIN lb :
               /\ lb[i].mass * MassScale <= summedMass(s, lb[i].playerId)
               /\ summedMass(s, lb[i].playerId) < (lb[i].mass + 1) * MassScale
          /\ \A i, j \in DOMAIN lb :
               i < j =>
                 /\ lb[i].mass >= lb[j].mass
                 /\ lb[i].mass = lb[j].mass
                      => firstBlob(s, lb[i].playerId) < firstBlob(s, lb[j].playerId)

\* a snapshot lists two players with one floored mass whose summed masses differ
C5_Witness ==
    \E k \in DOMAIN published :
      LET s == published[k]
          lb == s.leaderboard
      IN  \E i, j \in DOMAIN lb :
            /\ i < j
            /\ lb[i].mass = lb[j].mass
            /\ summedMass(s, lb[i].playerId) < summedMass(s, lb[j].playerId)

\* C6: in every snapshot the leaderboard has exactly min(10, number of distinct
\* owners of the snapshot's blobs) entries, no two of them for one player id,
\* and each for a player that owns a blob of the snapshot.
C6_BoardSize ==
    \A k \in DOMAIN published :
      LET s == published[k]
          lb == s.leaderboard
      IN  /\ Len(lb) = Min(LEADERBOARD_SIZE, Cardinality(ownersOf(s)))
          /\ \A i, j \in DOMAIN lb : i # j => lb[i].playerId # lb[j].playerId
          /\ \A i \in DOMAIN lb : lb[i].playerId \in ownersOf(s)

\* a snapshot of more owners than the leaderboard has lines, taken by a tick
\* after a player that had joined has lost its last blob
C6_Witness ==
    /\ ticks > 0
    /\ \E k \in DOMAIN published :
         /\ Cardinality(ownersOf(published[k])) > LEADERBOARD_SIZE
         /\ Len(published[k].leaderboard) = LEADERBOARD_SIZE
         /\ published[k].blobs = blobs
         /\ \E pid \in DOMAIN playerNames \cup {PlayerId(Guests[1], 0)} :
              pid \notin ownersOf(published[k])

\* C8: at most one interval timer is ever scheduled, and it is the one
\* tickInterval holds; while a timer is running no call schedules another or
\* replaces it (it stays, or stop() clears it); while none is running none is
\* scheduled, and only a start() call changes that.
C8_OneTimer ==
    [][/\ Cardinality(timers') <= 1
       /\ tickInterval' # Null => timers' = {tickInterval'}
       /\ tickInterval' = Null => timers' = {}
       /\ (tickInterval # Null /\ tickInterval' # Null)
            => (tickInterval' = tickInterval /\ timers' = timers)
       /\ (tickInterval = Null /\ starts' = starts)
            => (tickInterval' = Null /\ timers' = timers)]_vars

\* start() has been called twice in a row: the first call's timer is the one
\* scheduled
C8_Witness == starts = 2 /\ tickInterval = 1 /\ timers = {1}

\* C9: a tick runs only while the scheduler is running, from the timer that
\* tickInterval holds; once stop() has returned no timer is left scheduled,
\* so no tick can run until a start() call schedules a new one.
C9_NoTickAfterStop ==
    [][/\ IsTick => (tickInterval # Null /\ timers = {tickInterval})
       /\ tickInterval' = Null => timers' = {}]_vars

\* the server was started, ticked and was stopped
C9_Witness == tickInterval = Null /\ starts > 0 /\ ticks > 0

C11_SnapshotFrozen ==
    published # <<>> => snapshotBlobs = published[1].blobs

\* the calls made for a player id that owns no blob and has no record
GhostCalls ==
    \/ disconnectPlayer(GhostId)
    \/ \E dir \in Dirs : playerSplit(GhostId, dir)
    \/ \E mouse \in Mice, lag \in Lags : updatePlayerInput(GhostId, mouse, lag)

\* C12: in every state, for a player id that owns no blob and has no record,
\* each of disconnectPlayer, updatePlayerInput and playerSplit can be called
\* (it raises no error) and no such call changes the blob map, the food, the
\* messages, the player records or anything else.
C12_UnknownIdNoOp ==
    GhostId \notin KnownIds =>
      /\ ENABLED disconnectPlayer(GhostId)
      /\ \A dir \in Dirs : ENABLED playerSplit(GhostId, dir)
      /\ \A mouse \in Mice, lag \in Lags : ENABLED updatePlayerInput(GhostId, mouse, lag)
      /\ ~ENABLED (GhostCalls /\ vars' # vars)

\* two blobs are in the world, one of them heavy enough to be split, and a
\* player has a record
C12_Witness ==
    /\ GhostId \notin KnownIds
    /\ Len(blobs) >= 2
    /\ DOMAIN playerNames # {}
    /\ \E i \in DOMAIN blobs : blobs[i].mass >= Mass(MIN_MASS_TO_SPLIT)

\* the players present in the world: those with a record or a blob
presentIds == KnownIds

\* C13: the player id a connectPlayer call returns (the owner of the blob it
\* adds) is the id of no player already present, whatever names and clock
\* readings the joins use.
C13_FreshPlayerId ==
    [][joins' = joins + 1 => blobs'[Len(blobs')].playerId \notin presentIds]_vars

\* C14: a connectPlayer call appends exactly one blob to the world and leaves
\* the blobs that were there and the food as they were; the new blob has mass
\* INITIAL_PLAYER_MASS (20), the radius of that mass, zero velocity, a
\* position in [0, WORLD_WIDTH] x [0, WORLD_HEIGHT] and an id no blob had; its
\* owner is the player id under which the call records the player's name, and
\* no other player record changes.
C14_JoinAddsOneBlob ==
    [][joins' = joins + 1 =>
         LET new == blobs'[Len(blobs')]
         IN  /\ Len(blobs') = Len(blobs) + 1
             /\ SubSeq(blobs', 1, Len(blobs)) = blobs
             /\ food' = food
             /\ new.id \notin blobIds(blobs)
             /\ new.mass = INITIAL_PLAYER_MASS * MassScale
             /\ new.radius = massToRadius(new.mass)
             /\ new.velocity = Vec(0, 0)
             /\ new.pos.x >= 0 /\ new.pos.x <= WORLD_WIDTH * LenScale
             /\ new.pos.y >= 0 /\ new.pos.y <= WORLD_HEIGHT * LenScale
             /\ new.playerId \in DOMAIN playerNames'
             /\ playerNames'[new.playerId] = new.name
             /\ DOMAIN playerNames' = DOMAIN playerNames \cup {new.playerId}
             /\ \A p \in DOMAIN playerNames \ {new.playerId} :
                  playerNames'[p] = playerNames[p]]_vars

\* a player has joined a world in which a fed blob and its split piece move
C14_Witness ==
    /\ joins = 2
    /\ splitCalls > 0
    /\ blobs # <<>>
    /\ blobs[Len(blobs)].mass = Mass(INITIAL_PLAYER_MASS)
    /\ blobs[Len(blobs)].canRecombineTime = now
    /\ blobs[Len(blobs)].id = nextBlob
    /\ Len(blobs) >= 3

\* a call outside every tick and join that removes a blob or a player record
IsLeave ==
    /\ ticks' = ticks
    /\ joins' = joins
    /\ Len(blobs') < Len(blobs) \/ DOMAIN playerNames' # DOMAIN playerNames

\* C15: a disconnectPlayer(p) call that changes the world leaves no blob owned
\* by p in it, split pieces included, and no player record of p; the blobs of
\* every other owner stay as they were and in their order, the other player
\* records, the food and the chat log are unchanged.
C15_LeaveRemovesAll ==
    [][IsLeave =>
         \E p \in KnownIds :
           /\ \A i \in DOMAIN blobs' : blobs'[i].playerId # p
           /\ p \notin DOMAIN playerNames'
           /\ blobs' = SelectSeq(blobs, LAMBDA b : b.playerId # p)
           /\ DOMAIN playerNames' = DOMAIN playerNames \ {p}
           /\ \A q \in DOMAIN playerNames' : playerNames'[q] = playerNames[q]
           /\ food' = food
           /\ messages' = messages]_vars

\* the only player that joined has split into two pieces and left
C15_Witness ==
    /\ joins = 1
    /\ splitCalls = 1
    /\ blobs = <<>>
    /\ DOMAIN playerNames = {}

\* the blobs of the world that a step has written to
changedBlobs == {i \in DOMAIN blobs : i <= Len(blobs') /\ blobs'[i] # blobs[i]}

\* C16: in a playerSplit call that splits, every blob that is split keeps its
\* id, owner and position, has its mass halved and its canRecombineTime set to
\* the time of the call plus RECOMBINE_DELAY_MS; for each split blob exactly
\* one sibling is appended, in the order of the split blobs, with a new id, the
\* same owner, the halved mass and the same canRecombineTime; nothing else is
\* added, and the owner's total mass is the same before and after the call.
C16_SplitHalves ==
    [][IsSplit =>
         LET n == Len(blobs)
             owner == blobs'[Len(blobs')].playerId
         IN  /\ Len(blobs') - n = Cardinality(changedBlobs)
             /\ \A i \in changedBlobs :
                  LET k == Cardinality({c \in changedBlobs : c <= i})
                      half == blobs'[i]
                      new == blobs'[n + k]
                  IN  /\ blobs[i].playerId = owner
                      /\ half.id = blobs[i].id
                      /\ half.playerId = owner
                      /\ half.pos = blobs[i].pos
                      /\ 2 * half.mass = blobs[i].mass
                      /\ half.canRecombineTime = now + RECOMBINE_DELAY_MS
                      /\ new.id \notin blobIds(blobs)
                      /\ new.playerId = owner
                      /\ new.mass = half.mass
                      /\ new.canRecombineTime = now + RECOMBINE_DELAY_MS
             /\ totalMass(SelectSeq(blobs', LAMBDA b : b.playerId = owner))
                  = totalMass(SelectSeq(blobs, LAMBDA b : b.playerId = owner))]_vars

\* a blob that had eaten the food at NearSpot is split into two equal pieces
C16_Witness ==
    \E i, j \in DOMAIN blobs :
      /\ i < j
      /\ blobs[i].playerId = blobs[j].playerId
      /\ 2 * blobs[i].mass = Mass(INITIAL_PLAYER_MASS + InitNearFood)
      /\ blobs[j].mass = blobs[i].mass
      /\ blobs[i].canRecombineTime = now + RECOMBINE_DELAY_MS
      /\ blobs[j].canRecombineTime = now + RECOMBINE_DELAY_MS

\* the player's blob count has reached getMaxBlobsForMass of its total mass
atCap(pid) ==
    blobCount(blobs, pid)
      >= getMaxBlobsForMass(totalMass(SelectSeq(blobs, LAMBDA b : b.playerId = pid)))

\* C17: in every state, for a player whose blob count equals or exceeds
\* getMaxBlobsForMass(total mass of the player's blobs), no playerSplit call,
\* whatever the mouse direction, changes anything: the blob count and every
\* blob's mass, radius, position, velocity and canRecombineTime stay.
C17_SplitAtCapNoOp ==
    \A pid \in KnownIds, dir \in Dirs :
      atCap(pid) =>
        /\ ENABLED playerSplit(pid, dir)
        /\ ~ENABLED (playerSplit(pid, dir) /\ vars' # vars)

\* a player at its cap owns a blob heavy enough to be split
C17_Witness ==
    \E i \in DOMAIN blobs :
      /\ atCap(blobs[i].playerId)
      /\ blobs[i].mass >= Mass(MIN_MASS_TO_SPLIT)

\* the blobs after the movement pass of the tick that begins in this state
movedBlobs == movement(blobs)

\* the place q lies within blob i's radius as the food pass begins / as it ends
\* (the radius only grows during the pass, so every test of the blob lies
\* between the two)
reachedAtFirst(i, q) == closerThan(movedBlobs[i].pos, q, movedBlobs[i].radius)
reachedAtLast(i, q) == closerThan(movedBlobs[i].pos, q, fedBlobs[i].radius)

\* the food arrays the pass may keep: an item some blob reaches from the first
\* is removed, an item no blob reaches even at last stays where it is, and of
\* the items in between any number stays
RECURSIVE keptChoices(_, _)
keptChoices(k, kept) ==
    IF k > Len(food) THEN {kept}
    ELSE LET run == food[k]
             q == run.item.pos
         IN  IF \E i \in DOMAIN blobs : reachedAtFirst(i, q)
             THEN keptChoices(k + 1, kept)
             ELSE IF \A i \in DOMAIN blobs : ~reachedAtLast(i, q)
             THEN keptChoices(k + 1, pushFood(kept, run.item, run.n))
             ELSE UNION {keptChoices(k + 1, pushFood(kept, run.item, c)) : c \in 0 .. run.n}

\* the least and the greatest mass blob i can have eaten: the items it reaches
\* that no blob before it in the array has removed
eatenAtLeast(i) ==
    LET mine == SelectSeq(food, LAMBDA run :
                    /\ reachedAtFirst(i, run.item.pos)
                    /\ \A j \in 1 .. i - 1 : ~reachedAtLast(j, run.item.pos))
    IN  foodLength(mine) * Mass(FOOD_MASS)
eatenAtMost(i) ==
    LET mine == SelectSeq(food, LAMBDA run :
                    /\ reachedAtLast(i, run.item.pos)
                    /\ \A j \in 1 .. i - 1 : ~reachedAtFirst(j, run.item.pos))
    IN  foodLength(mine) * Mass(FOOD_MASS)

\* the ids of the blobs that took part in a blob-blob resolution of a log
resolvedIds(log) ==
    {log[k].winner.id : k \in DOMAIN log} \cup {log[k].loser.id : k \in DOMAIN log}

\* C18: in every tick, the food afterwards is the food before without the
\* items that lay within a blob's radius when tested (measured from the blob's
\* centre after the movement pass), the items within no blob's radius kept at
\* their places, followed by as many new items as bring the population back to
\* FOOD_COUNT = 200; the blobs' mass grows by FOOD_MASS = 1 for every item
\* removed, and a blob that took part in no blob-blob resolution has grown by
\* the mass of exactly the items it removed.
C18_FoodEaten ==
    [][IsTick =>
         /\ foodLength(food') = FOOD_COUNT
         /\ \E kept \in keptChoices(1, <<>>) :
              LET eaten == foodLength(food) - foodLength(kept)
              IN  /\ \E near \in 0 .. FOOD_COUNT - foodLength(kept) :
                       food' = pushBatch(kept, FOOD_COUNT - foodLength(kept), near)
                  /\ totalMass(blobs') = totalMass(blobs) + eaten * Mass(FOOD_MASS)
         /\ \A i \in DOMAIN blobs :
              blobs[i].id \notin resolvedIds(resolved') =>
                \E n \in DOMAIN blobs' :
                  /\ blobs'[n].id = blobs[i].id
                  /\ blobs'[n].mass >= blobs[i].mass + eatenAtLeast(i)
                  /\ blobs'[n].mass <= blobs[i].mass + eatenAtMost(i)
                  /\ blobs'[n].radius = massToRadius(blobs'[n].mass)]_vars

\* the one tick so far removed the InitNearFood items at a blob's centre and
\* left the far ones, and no blob absorbed another
C18_Witness ==
    /\ ticks = 1
    /\ resolved = <<>>
    /\ \E i \in DOMAIN blobs :
         /\ blobs[i].pos = NearSpot
         /\ blobs[i].mass = Mass(INITIAL_PLAYER_MASS) + InitNearFood * Mass(FOOD_MASS)
    /\ \E k \in DOMAIN food : food[k].item.pos = FarSpot /\ food[k].n >= FOOD_COUNT - InitNearFood

\* the log entry e was made before the scan reached the pair (i, j)
madeBefore(e, i, j) == e.i < i \/ (e.i = i /\ e.j < j)

\* the mass the blob id has won in the log from entry k on, in the
\* resolutions made before the scan reached the pair (i, j)
RECURSIVE wonBefore(_, _, _, _, _)
wonBefore(log, k, id, i, j) ==
    IF k > Len(log) THEN 0
    ELSE (IF log[k].winner.id = id /\ madeBefore(log[k], i, j)
          THEN log[k].loser.mass ELSE 0)
         + wonBefore(log, k + 1, id, i, j)

\* blob x of the scanned array when the scan reaches the pair (i, j): its mass
\* after the food pass plus what it has won so far; whether it is consumed
massAt(log, x, i, j) == fedBlobs[x].mass + wonBefore(log, 1, fedBlobs[x].id, i, j)
goneAt(log, x, i, j) ==
    \E k \in DOMAIN log : log[k].loser.id = fedBlobs[x].id /\ madeBefore(log[k], i, j)

\* A.mass > 1.1 * B.mass and distance(A, B) < A.radius - 0.5 * B.radius
marginMet(massA, radiusA, massB, radiusB, dist) ==
    /\ 10 * massA > 11 * massB
    /\ 2 * dist < 2 * radiusA - radiusB

\* the condition holds for blob a over blob b when the scan reaches (i, j)
marginMetAt(log, a, b, i, j) ==
    marginMet(massAt(log, a, i, j), massToRadius(massAt(log, a, i, j)),
              massAt(log, b, i, j), massToRadius(massAt(log, b, i, j)),
              distance(fedBlobs[a].pos, fedBlobs[b].pos))

\* C19: in every tick, (1) a blob consumes a blob of another owner only when,
\* as the pair is examined, its mass exceeds 1.1 times the other's and the
\* distance of the centres is below its radius minus half the other's radius;
\* (2) a pair of different owners, neither consumed yet, that meets the
\* condition in neither direction is left alone; (3) a blob is in the Map
\* after the tick exactly when no examination consumed it, and its mass is
\* then its mass after the food pass plus the masses it consumed, so that an
\* examination that is left alone changes neither mass nor presence.
C19_EngulfOnlyWithMargin ==
    [][IsTick =>
         LET log == resolved'
             n == Len(fedBlobs)
         IN  /\ \A k \in DOMAIN log :
                  log[k].kind = "engulf" =>
                    LET e == log[k]
                    IN  /\ e.winner.playerId # e.loser.playerId
                        /\ marginMet(e.winner.mass, e.winner.radius,
                                     e.loser.mass, e.loser.radius,
                                     distance(e.winner.pos, e.loser.pos))
                        /\ {e.winner.id, e.loser.id} = {fedBlobs[e.i].id, fedBlobs[e.j].id}
                        /\ \A x \in {e.i, e.j} :
                             /\ ~goneAt(log, x, e.i, e.j)
                             /\ fedBlobs[x].id = e.winner.id
                                  => e.winner.mass = massAt(log, x, e.i, e.j)
                             /\ fedBlobs[x].id = e.loser.id
                                  => e.loser.mass = massAt(log, x, e.i, e.j)
             /\ \A i \in 1 .. n, j \in 1 .. n :
                  /\ i < j
                  /\ fedBlobs[i].playerId # fedBlobs[j].playerId
                  /\ ~goneAt(log, i, i, j) /\ ~goneAt(log, j, i, j)
                  /\ ~marginMetAt(log, i, j, i, j)
                  /\ ~marginMetAt(log, j, i, i, j)
                  => \A k \in DOMAIN log : ~(log[k].i = i /\ log[k].j = j)
             /\ \A x \in 1 .. n :
                  /\ fedBlobs[x].id \in blobIds(blobs') <=> ~goneAt(log, x, n + 1, n + 1)
                  /\ \A m \in DOMAIN blobs' :
                       blobs'[m].id = fedBlobs[x].id
                         => blobs'[m].mass = massAt(log, x, n + 1, n + 1)]_vars

\* the last tick engulfed a blob and examined a pair of different owners that
\* it left alone: both blobs are still in the Map
C19_Witness ==
    /\ \E k \in DOMAIN resolved : resolved[k].kind = "engulf"
    /\ \E i, j \in DOMAIN blobs : blobs[i].playerId # blobs[j].playerId

IsJoin == joins' = joins + 1

\* the snapshot a pushState() call at the end of the step hands to the listener
snapshotAtEnd == gameState(blobs', food', messages', playerNames')

\* C20 as stated: the listener is invoked once in every tick, and in no other
\* step (no player action publishes a snapshot between two ticks).
C20_OncePerTick ==
    [][/\ IsTick => pushes' = pushes + 1
       /\ ~IsTick => pushes' = pushes]_vars

\* C20 as amended: the listener is invoked exactly once in every tick and
\* exactly once in every connectPlayer call, each time with the snapshot of
\* the state at the end of that tick or call, and in no other step:
\* disconnectPlayer, updatePlayerInput, playerSplit, addMessage, start and stop
\* publish nothing.
C20_OncePerTickAndJoin ==
    [][/\ IsTick \/ IsJoin => pushes' = pushes + 1 /\ published' = <<snapshotAtEnd>>
       /\ ~(IsTick \/ IsJoin) => pushes' = pushes /\ published' = published]_vars

\* ticks and joins have published, every one once, while a split, a steering
\* input and a leave have gone by without a snapshot
C20_Witness ==
    /\ ticks > 0 /\ joins > 0
    /\ pushes = ticks + joins
    /\ splitCalls > 0 /\ inputs > 0
    /\ blobs = <<>>

\* what the atomic tick makes of the world the running tick() call found
wholeTick == 
    LET ate == eatAll(movement(frame.entry.blobs), frame.entry.food, 1)
    IN  [blobs |-> survivors(resolvePairs(ate.blobs, now)),
         kept |-> ate.food]

\* C21: while a tick() call is under way no handler runs (no join, split,
\* steering input, chat message, start or stop takes effect, no player record
\* changes) and no second tick() call begins; and when the call publishes, the
\* blobs and the food are what movement, food pass, top-up, pair scan and
\* delete make of the world the call found, with nothing else mixed in.
C21_TickRunsToCompletion ==
    [][frame.pc # "idle" =>
         /\ UNCHANGED <<joins, splitCalls, inputs, starts, playerNames, messages,
                        tickInterval, timers, nextBlob>>
         /\ frame'.pc # "food"
         /\ frame'.pc # "idle" => frame'.entry = frame.entry
         /\ frame'.pc = "idle" /\ frame' # frame =>
              /\ ticks' = ticks + 1
              /\ blobs' = wholeTick.blobs
              /\ \E near \in 0 .. FOOD_COUNT :
                   food' = pushBatch(wholeTick.kept,
                                     FOOD_COUNT - foodLength(wholeTick.kept), near)
              /\ published' = <<gameState(blobs', food', messages', playerNames')>>]_vars

\* a tick() call is in its pair scan, having consumed a blob, while a timer is
\* scheduled and players are there to submit actions
C21_Witness ==
    /\ frame.pc = "pairs"
    /\ frame.consumed # {}
    /\ timers # {}
    /\ Len(blobs) >= 2
    /\ splitCalls < MaxSplitCalls

\* the step leaves statement a of the running tick() call for statement b
Leaves(a, b) == frame.pc = a /\ frame'.pc = b

\* C22 as stated: the statements of a tick() call follow one another as
\* movement, blob-food and blob-blob resolution with the delete, food top-up,
\* leaderboard and publication; in particular the step that tops the food up
\* comes when the pair scan has run through all the blobs the call found.
C22_TopUpAfterResolution ==
    [][/\ frame'.pc # frame.pc =>
            \/ Leaves("idle", "food") \/ Leaves("food", "pairs")
            \/ Leaves("pairs", "delete") \/ Leaves("delete", "topup")
            \/ Leaves("topup", "push") \/ Leaves("push", "idle")
       /\ foodLength(food') > foodLength(food) =>
            frame.i > Len(frame.entry.blobs)]_vars

\* C22 as amended: the statements of a tick() call follow one another as
\* movement of all blobs, blob-food resolution, food top-up, blob-blob
\* resolution, delete of the consumed blobs, leaderboard and publication.
\* The food pass moves no blob and adds no food; the top-up changes no blob,
\* fills the food to FOOD_COUNT and comes before the first pair is examined;
\* the pair scan and the delete leave the food alone, and only the delete
\* takes blobs out of the Map; the snapshot published is the state then.
C22_OrderOfStatements ==
    [][/\ frame'.pc # frame.pc =>
            \/ Leaves("idle", "food") \/ Leaves("food", "topup")
            \/ Leaves("topup", "pairs") \/ Leaves("pairs", "delete")
            \/ Leaves("delete", "push") \/ Leaves("push", "idle")
       /\ Leaves("idle", "food") =>
            /\ blobs' = movement(blobs)
            /\ food' = food
       /\ frame.pc = "food" =>
            /\ foodLength(food') <= foodLength(food)
            /\ Len(blobs') = Len(blobs)
            /\ \A n \in DOMAIN blobs : blobs'[n].pos = blobs[n].pos
       /\ frame.pc = "topup" =>
            /\ blobs' = blobs
            /\ foodLength(food') = FOOD_COUNT
            /\ frame.consumed = {} /\ resolved = <<>>
            /\ frame.i = 1 /\ frame.j = 2
       /\ frame.pc = "pairs" =>
            /\ food' = food
            /\ foodLength(food) = FOOD_COUNT
            /\ blobIds(blobs') = blobIds(blobs)
       /\ frame.pc = "delete" =>
            /\ food' = food
            /\ blobIds(blobs') = blobIds(blobs) \ frame.consumed
       /\ frame.pc = "push" =>
            /\ blobs' = blobs /\ food' = food
            /\ published' = <<gameState(blobs, food, messages, playerNames)>>]_vars

\* a tick() call that ate food, and so topped the food up, and then consumed a
\* blob in its pair scan stands before its publication
C22_Witness ==
    /\ frame.pc = "push"
    /\ resolved # <<>>
    /\ totalMass(blobs) > totalMass(frame.entry.blobs)

\* the lines first .. last of ChatLines as chat messages of player "a"
linesFromTo(first, last) ==
    [k \in 1 .. (last - first + 1) |-> [name |-> "a", text |-> ChatLines[first + k - 1]]]

\* the log holds the most recent min(n, 10) of the n lines sent, oldest first
recentLines(log, n) ==
    log = linesFromTo(n - Min(n, MESSAGE_LOG_SIZE) + 1, n)

\* C23: in every state the chat log has at most 10 entries; any further
\* addMessage call leaves the log with the new message appended at the end
\* and, if there were 10 entries already, the oldest entry dropped, all other
\* entries staying in their order; and the log in the last snapshot is the
\* most recent min(n, 10) of the n messages that had arrived when it was
\* published.
C23_RollingChatLog ==
    /\ Len(messages) <= MESSAGE_LOG_SIZE
    /\ \A text \in {ChatLines[k] : k \in DOMAIN ChatLines} :
         ENABLED (/\ addMessage("a", text)
                  /\ messages' = Append(IF Len(messages) < MESSAGE_LOG_SIZE
                                        THEN messages ELSE Tail(messages),
                                        [name |-> "a", text |-> text]))
    /\ published # <<>> =>
         /\ Len(published[1].messages) <= MESSAGE_LOG_SIZE
         /\ \E n \in 0 .. sentLines : recentLines(published[1].messages, n)

\* an eleventh and a twelfth message have arrived, and a snapshot taken after
\* the eleventh shows the messages 2 to 11
C23_Witness ==
    /\ messages = linesFromTo(3, 12)
    /\ published # <<>>
    /\ published[1].messages = linesFromTo(2, 11)

\* C24: in every reachable state every blob in the Map has a mass above zero,
\* whatever joins, splits, meals, recombinations and engulfments came before.
C24_PositiveMass ==
    \A n \in DOMAIN blobs : blobs[n].mass > 0

\* a split half that has since been through a tick with a blob-blob
\* resolution is in the Map, lighter than a new blob
C24_Witness ==
    /\ splitCalls > 0
    /\ resolved # <<>>
    /\ \E n \in DOMAIN blobs : blobs[n].mass < Mass(INITIAL_PLAYER_MASS)

\* the masses the radius is tried on: every mass from 0 to MaxProbeMass in
\* steps of the smallest mass difference of the model
RadiusMasses == 0 .. Mass(MaxProbeMass)

\* C25: massToRadius(m) is non-negative for every mass m >= 0 tried, and
\* strictly increasing: for masses m1 < m2 the squared radius of m1 is below
\* the squared radius of m2 (massToRadius is the root of the squared radius, so
\* the radii compare the same way, and the rounded radii never compare the
\* other way). This is checked for every pair of neighbouring masses, which
\* gives all pairs, and for the mass and radius of every blob in the Map
\* against every mass tried.
C25_RadiusIncreasing ==
    /\ \A m \in RadiusMasses :
         LET r == massToRadius(m)
             below == massToRadius(m - 1)
         IN  /\ r >= 0
             /\ r * r <= squaredRadius(m)
             /\ squaredRadius(m) < (r + 1) * (r + 1)
             /\ m > 0 =>
                  /\ squaredRadius(m - 1) < squaredRadius(m)
                  /\ below <= r
             /\ \A n \in DOMAIN blobs :
                  /\ m < blobs[n].mass =>
                       /\ squaredRadius(m) < squaredRadius(blobs[n].mass)
                       /\ r <= blobs[n].radius
                  /\ m > blobs[n].mass =>
                       /\ squaredRadius(m) > squaredRadius(blobs[n].mass)
                       /\ r >= blobs[n].radius

\* the heaviest player tried has split: its halves carry a radius computed by
\* massToRadius for half of MaxProbeMass
C25_Witness ==
    /\ splitCalls > 0
    /\ \E n \in DOMAIN blobs :
         /\ 2 * blobs[n].mass = Mass(MaxProbeMass)
         /\ blobs[n].radius = massToRadius(blobs[n].mass)
         /\ blobs[n].radius > massToRadius(Mass(INITIAL_PLAYER_MASS))

\* C26: across every tick the masses of the blobs in the Map afterwards sum
\* to the sum before plus FOOD_MASS for every food item the tick removed: the
\* food pass credits every removed item to one blob (the blobs' masses after
\* it sum to the sum before plus the items removed), and the pair scan with
\* the delete keeps the sum, every winner taking exactly its loser's mass,
\* also when one tick chains several resolutions.
C26_MassConserved ==
    [][IsTick =>
         /\ \E kept \in keptChoices(1, <<>>) :
              LET removed == foodLength(food) - foodLength(kept)
              IN  /\ \E near \in 0 .. removed : food' = pushBatch(kept, removed, near)
                  /\ totalMass(fedBlobs) = totalMass(blobs) + removed * Mass(FOOD_MASS)
                  /\ totalMass(blobs') = totalMass(blobs) + removed * Mass(FOOD_MASS)
         /\ \A k \in DOMAIN resolved' :
              resolved'[k].after.mass = resolved'[k].winner.mass + resolved'[k].loser.mass
         /\ totalMass(blobs') = totalMass(fedBlobs)]_vars

\* the last tick chained two resolutions: the winner of the first won the
\* second with the first loser's mass on top of its own
C26_Witness ==
    /\ Len(resolved) >= 2
    /\ resolved[2].winner.id = resolved[1].winner.id
    /\ resolved[2].winner.mass = resolved[1].winner.mass + resolved[1].loser.mass

\* the log has an entry for the pair (i, j) in which blob w wins with mass m
wonBy(log, i, j, w, m) ==
    \E k \in DOMAIN log :
      /\ log[k].i = i /\ log[k].j = j
      /\ log[k].kind = "engulf"
      /\ log[k].winner.id = fedBlobs[w].id
      /\ log[k].winner.mass = m

\* C27: in every tick, when the scan reaches a pair of different owners,
\* neither blob consumed yet, the tests are made on the masses the two blobs
\* have then, every mass won from earlier pairs of the tick included: if the
\* first blob meets the condition on these masses it consumes the second, and
\* else if the second meets it, the second consumes the first.
C27_TestUsesGrownMass ==
    [][IsTick =>
         LET log == resolved'
             n == Len(fedBlobs)
         IN  \A i \in 1 .. n, j \in 1 .. n :
               /\ i < j
               /\ fedBlobs[i].playerId # fedBlobs[j].playerId
               /\ ~goneAt(log, i, i, j) /\ ~goneAt(log, j, i, j)
               => /\ marginMetAt(log, i, j, i, j)
                       => wonBy(log, i, j, i, massAt(log, i, i, j))
                  /\ ~marginMetAt(log, i, j, i, j) /\ marginMetAt(log, j, i, i, j)
                       => wonBy(log, i, j, j, massAt(log, j, i, j))]_vars

\* in the last tick a blob consumed a blob, and then a second one that it
\* could not have consumed on the mass it had before the first
C27_Witness ==
    \E k, m \in DOMAIN resolved :
      /\ k < m
      /\ resolved[k].kind = "engulf" /\ resolved[m].kind = "engulf"
      /\ resolved[m].winner.id = resolved[k].winner.id
      /\ 10 * resolved[k].winner.mass <= 11 * resolved[m].loser.mass
      /\ 10 * resolved[m].winner.mass > 11 * resolved[m].loser.mass

\* the blobs as the pair scan of the running tick() call found them: after
\* the movement and the food pass
scanEntry == eatAll(movement(frame.entry.blobs), frame.entry.food, 1).blobs

\* the running tick() call is about to examine the pair (frame.i, frame.j)
AtPair == frame.pc = "pairs" /\ frame.i <= Len(blobs) /\ frame.j <= Len(blobs)

\* neither blob of that pair is marked consumed: the tests are made
Tested ==
    /\ AtPair
    /\ blobs[frame.i].id \notin frame.consumed
    /\ blobs[frame.j].id \notin frame.consumed

\* the pair scan moves on to a later pair or ends: no pair comes twice
ScanMovesOn ==
    \/ frame'.pc = "delete"
    \/ /\ frame'.pc = "pairs"
       /\ \/ frame'.i > frame.i
          \/ frame'.i = frame.i /\ frame'.j > frame.j

\* C28 as stated: the scan examines every pair i < j at most once, and the
\* tests of a pair are made on the position and the radius the two blobs had
\* when the pair scan began.
C28_TestUsesEntryRadius ==
    [][/\ frame.pc = "pairs" /\ frame' # frame => ScanMovesOn
       /\ AtPair => frame.i < frame.j
       /\ Tested =>
            \A x \in {frame.i, frame.j} :
              /\ blobs[x].pos = scanEntry[x].pos
              /\ blobs[x].radius = scanEntry[x].radius]_vars

\* C28 as amended: the scan examines every pair i < j at most once; the tests
\* of a pair are made on the position the two blobs had when the pair scan
\* began and on the radius each blob has when the pair is examined, which is
\* massToRadius of its mass then, the masses won from earlier pairs of the
\* tick included; on these values alone it is decided whether the pair is
\* resolved.
C28_TestUsesCurrentRadius ==
    [][/\ frame.pc = "pairs" /\ frame' # frame => ScanMovesOn
       /\ AtPair => frame.i < frame.j
       /\ Tested =>
            LET b1 == blobs[frame.i]
                b2 == blobs[frame.j]
                dist == distance(scanEntry[frame.i].pos, scanEntry[frame.j].pos)
                r1 == massToRadius(scanEntry[frame.i].mass + wonSoFar(resolved, 1, b1.id))
                r2 == massToRadius(scanEntry[frame.j].mass + wonSoFar(resolved, 1, b2.id))
            IN  /\ b1.pos = scanEntry[frame.i].pos /\ b2.pos = scanEntry[frame.j].pos
                /\ b1.radius = r1 /\ b2.radius = r2
                /\ b1.playerId # b2.playerId =>
                     (resolved' # resolved <=>
                        \/ 10 * b1.mass > 11 * b2.mass /\ 2 * dist < 2 * r1 - r2
                        \/ 10 * b2.mass > 11 * b1.mass /\ 2 * dist < 2 * r2 - r1)
                /\ b1.playerId = b2.playerId =>
                     (resolved' # resolved <=>
                        /\ now > b1.canRecombineTime /\ now > b2.canRecombineTime
                        /\ dist < r1 \/ dist < r2)]_vars

\* the scan is about to test a pair of different owners one of which has won
\* an earlier pair of the tick and carries a larger radius than it had when
\* the scan began
C28_Witness ==
    /\ Tested
    /\ blobs[frame.i].playerId # blobs[frame.j].playerId
    /\ \E x \in {frame.i, frame.j} : blobs[x].radius > scanEntry[x].radius

\* the blobs of the Map that the running tick() call has marked consumed
markedBlobs == {x \in DOMAIN blobs : blobs[x].id \in frame.consumed}

\* C29: while the pair scan of a tick runs, a mark stays; a marked blob is
\* left as it is (it gains no mass) and stays in the Map; a resolution is
\* made only between two blobs that are not marked, so that a marked blob is
\* consumed once and consumes nothing afterwards; and blobs leave the Map
\* during a tick only in the delete, which comes when the scan has run
\* through all pairs and takes out exactly the marked blobs.
C29_ConsumedIsSkipped ==
    [][/\ frame.pc = "pairs" =>
            /\ frame.consumed \subseteq frame'.consumed
            /\ Len(blobs') = Len(blobs)
            /\ \A x \in markedBlobs : blobs'[x] = blobs[x]
            /\ resolved' # resolved =>
                 LET e == resolved'[Len(resolved')]
                 IN  /\ resolved' = Append(resolved, e)
                     /\ e.winner.id \notin frame.consumed
                     /\ e.loser.id \notin frame.consumed
                     /\ frame'.consumed = frame.consumed \cup {e.loser.id}
            /\ resolved' = resolved => frame'.consumed = frame.consumed /\ blobs' = blobs
       /\ frame.pc # "idle" /\ blobIds(blobs') # blobIds(blobs) =>
            /\ frame.pc = "delete"
            /\ frame.i > Len(blobs)
            /\ blobIds(blobs') = blobIds(blobs) \ frame.consumed
            /\ blobs' = SelectSeq(blobs, LAMBDA b : b.id \notin frame.consumed)]_vars

\* the scan has reached a pair with a blob that is marked consumed and still
\* in the Map, next to two blobs that are not marked
C29_Witness ==
    /\ AtPair
    /\ ~Tested
    /\ Cardinality(DOMAIN blobs \ markedBlobs) >= 2

\* C30: for every recombination a tick makes, the two blobs have one owner
\* and overlap, the survivor is the blob that comes first in the iteration
\* order of the Map (index i of the pair i < j), be it the lighter or the
\* heavier of the two, its mass right after is the sum of both masses with
\* the radius recomputed from it, and the other blob is not in the Map when
\* the tick ends.
C30_FirstBlobSurvives ==
    [][IsTick =>
         \A k \in DOMAIN resolved' :
           resolved'[k].kind = "recombine" =>
             LET e == resolved'[k]
                 dist == distance(e.winner.pos, e.loser.pos)
             IN  /\ e.winner.playerId = e.loser.playerId
                 /\ dist < e.winner.radius \/ dist < e.loser.radius
                 /\ e.i < e.j
                 /\ e.winner.id = fedBlobs[e.i].id
                 /\ e.loser.id = fedBlobs[e.j].id
                 /\ e.after.id = e.winner.id
                 /\ e.after.mass = e.winner.mass + e.loser.mass
                 /\ e.after.radius = massToRadius(e.winner.mass + e.loser.mass)
                 /\ e.loser.id \notin blobIds(blobs')
                 /\ \A m \in DOMAIN resolved' :
                      m > k /\ resolved'[m].winner.id = e.winner.id
                        => resolved'[m].winner.mass >= e.after.mass]_vars

\* the last tick recombined two blobs of which the second, the heavier one,
\* went into the first
C30_Witness ==
    \E k \in DOMAIN resolved :
      /\ resolved[k].kind = "recombine"
      /\ resolved[k].loser.mass > resolved[k].winner.mass
      /\ resolved[k].after.id = resolved[k].winner.id

\* the mass of the items of the runs in S that stand before run k in the array
RECURSIVE massBefore(_, _)
massBefore(S, k) ==
    IF k <= 1 THEN 0
    ELSE (IF (k - 1) \in S THEN food[k - 1].n * food[k - 1].item.mass ELSE 0)
         + massBefore(S, k - 1)

\* the food array without the runs in gone, from run k on
RECURSIVE foodWithout(_, _, _)
foodWithout(gone, k, kept) ==
    IF k > Len(food) THEN kept
    ELSE foodWithout(gone, k + 1,
                     IF k \in gone THEN kept ELSE pushFood(kept, food[k].item, food[k].n))

\* eaten[i] are the runs blob i removes in the food pass of the tick that
\* begins here: run k, if no earlier blob has removed it, is removed exactly
\* when it lies within the radius that blob i has when it has grown by the
\* items it removed before k in this pass
eatenByGrowing(eaten) ==
    \A i \in DOMAIN blobs, k \in DOMAIN food :
      k \in eaten[i] <=>
        /\ \A h \in 1 .. i - 1 : k \notin eaten[h]
        /\ closerThan(movedBlobs[i].pos, food[k].item.pos,
                      massToRadius(movedBlobs[i].mass + massBefore(eaten[i], k)))

\* C31: in every tick the food pass removes, for every blob in turn, the items
\* that lie within the radius the blob has when the item is tested: the
\* radius of its mass at the start of the tick plus the mass of every item it
\* removed earlier in the pass. The food afterwards is the food without
\* these items plus the top-up, and a blob that took part in no blob-blob
\* resolution has grown by the items it removed.
C31_TestUsesGrownRadius ==
    [][IsTick =>
         \E eaten \in [DOMAIN blobs -> SUBSET DOMAIN food] :
           /\ eatenByGrowing(eaten)
           /\ LET gone == UNION {eaten[i] : i \in DOMAIN blobs}
                  kept == foodWithout(gone, 1, <<>>)
              IN  \E near \in 0 .. FOOD_COUNT :
                    food' = pushBatch(kept, FOOD_COUNT - foodLength(kept), near)
           /\ \A i \in DOMAIN blobs :
                blobs[i].id \notin resolvedIds(resolved') =>
                  \E n \in DOMAIN blobs' :
                    /\ blobs'[n].id = blobs[i].id
                    /\ blobs'[n].mass
                         = blobs[i].mass + massBefore(eaten[i], Len(food) + 1)]_vars

\* after one tick a blob at NearSpot has eaten the items at NearSpot and, with
\* the radius grown by them, the items at RimSpot, which the radius of a new
\* blob does not reach
C31_Witness ==
    /\ ticks = 1
    /\ \E n \in DOMAIN blobs :
         /\ blobs[n].pos = NearSpot
         /\ blobs[n].mass = Mass(INITIAL_PLAYER_MASS) + (InitNearFood + RimFood) * Mass(FOOD_MASS)
         /\ ~closerThan(NearSpot, RimSpot, massToRadius(Mass(INITIAL_PLAYER_MASS)))
    /\ \A k \in DOMAIN food : food[k].item.pos # RimSpot

\* the coordinate c moved by v and held inside [0, limit]
heldInside(c, v, limit) ==
    IF c + v > limit THEN limit ELSE IF c + v < 0 THEN 0 ELSE c + v

\* the velocity component after is the component before damped: no larger,
\* not zero unless rounded to it, and never of the other sign
dampedNotReversed(before, after) ==
    /\ before >= 0 => after >= 0 /\ after <= before
    /\ before <= 0 => after <= 0 /\ after >= before

\* C32: at the end of every tick every blob that was in the Map when the tick
\* began, unless the tick consumed it, has both coordinates inside
\* [0, WORLD_WIDTH] x [0, WORLD_HEIGHT]: each coordinate is the old one plus
\* the velocity, put exactly on the wall when that lies outside, and each
\* velocity component is damped and keeps its sign.
C32_HeldInsideWorld ==
    [][IsTick =>
         \A i \in DOMAIN blobs, n \in DOMAIN blobs' :
           blobs'[n].id = blobs[i].id =>
             LET b == blobs[i]
                 a == blobs'[n]
             IN  /\ a.pos.x = heldInside(b.pos.x, b.velocity.x, Len_(WORLD_WIDTH))
                 /\ a.pos.y = heldInside(b.pos.y, b.velocity.y, Len_(WORLD_HEIGHT))
                 /\ a.pos.x >= 0 /\ a.pos.x <= Len_(WORLD_WIDTH)
                 /\ a.pos.y >= 0 /\ a.pos.y <= Len_(WORLD_HEIGHT)
                 /\ dampedNotReversed(b.velocity.x, a.velocity.x)
                 /\ dampedNotReversed(b.velocity.y, a.velocity.y)]_vars

\* a split piece thrown at the right wall has been through a tick: it sits
\* exactly on the wall and still moves toward it
C32_Witness ==
    /\ ticks > 0
    /\ \E n \in DOMAIN blobs :
         /\ blobs[n].pos.x = Len_(WORLD_WIDTH)
         /\ blobs[n].velocity.x > 0

\* the blob lies inside the world
insideWorld(b) ==
    /\ b.pos.x >= 0 /\ b.pos.x <= Len_(WORLD_WIDTH)
    /\ b.pos.y >= 0 /\ b.pos.y <= Len_(WORLD_HEIGHT)

\* C33: in every snapshot passed to the listener every blob's position lies
\* inside [0, WORLD_WIDTH] x [0, WORLD_HEIGHT], the blobs made by playerSplit or
\* connectPlayer since the last tick included.
C33_SnapshotInsideWorld ==
    \A k \in DOMAIN published :
      \A n \in DOMAIN published[k].blobs : insideWorld(published[k].blobs[n])

\* the step is an updatePlayerInput call that steered a blob
IsInput == inputs' = inputs + 1

\* the blobs whose velocity the step changes
steeredBlobs == {i \in DOMAIN blobs : blobs'[i].velocity # blobs[i].velocity}

socketUsable ==
    /\ client.sockets # <<>>
    /\ client.sockets[Len(client.sockets)].readyState \in {"CONNECTING", "OPEN"}

\* C35: a change of gameState alone does not close the socket: close() is
\* called on a socket only by the 'playerDied' handler, by a new
\* connectToServer call or when the component is unmounted (the network may
\* still end the connection), so that after 'init' has moved the client from
\* 'connecting' to 'playing' the socket is still open.
C35_ClosedOnlyOnPurpose ==
    /\ \A k \in SocketIds :
         client.sockets[k].closedBy \in
           {"none", "playerDied", "connectToServer", "unmount", "network"}
    /\ /\ client.mounted
       /\ client.gameState = "playing"
       /\ client.sockets[Len(client.sockets)].closedBy # "network"
       => socketUsable

\* C36: if the socket is closed while the state is 'playing' and the player
\* has not died, the state becomes 'disconnected'; a close after 'gameOver'
\* leaves 'gameOver'.
C36_CloseWhilePlaying ==
    /\ (/\ client.mounted
        /\ client.gameState = "playing"
        /\ client.sockets # <<>>
        /\ client.sockets[Len(client.sockets)].readyState \in {"CLOSING", "CLOSED"})
         ~> (~client.mounted \/ client.gameState = "disconnected")
    /\ [][client.gameState = "gameOver" /\ client.sockets' # client.sockets
            => client'.gameState = "gameOver"]_vars

\* the blobs of the local player in the snapshot the client holds
myWireBlobs ==
    SelectSeq(client.gameDataRef, LAMBDA b : b.ownerId = client.playerIdRef)

IsStartGame == joins' = joins + 1 /\ ui'.uiState = "playing" /\ ui.uiState # "playing"

\* the local player owns a blob of the Map
ownsLiveBlob == \E i \in DOMAIN blobs : blobs[i].playerId = ui.playerIdRef

\* C37: connectPlayer hands the listener a snapshot that holds the new blob
\* before it returns, so what the UI holds after startGame (the first game or
\* Play Again) shows the blob of the player that just joined, and the UI never
\* goes to 'gameOver' while that player owns a blob of the Map.
C37_NoGameOverWhileAlive ==
    [][/\ IsStartGame =>
            /\ pushes' = pushes + 1
            /\ \E i \in DOMAIN published'[1].blobs :
                 /\ published'[1].blobs[i].playerId = ui'.playerIdRef
                 /\ published'[1].blobs[i].id = blobs'[Len(blobs')].id
       /\ ui'.uiState = "gameOver" /\ ui.uiState # "gameOver" => ~ownsLiveBlob]_vars

\* Play Again: the player was engulfed in the last tick, has joined again,
\* and the game-over effect has run on the snapshot of the join and left the
\* UI playing
C37_Witness ==
    /\ ui.uiState = "playing"
    /\ ui.effectFor = effectDeps
    /\ ownsLiveBlob
    /\ \E k \in DOMAIN resolved :
         /\ resolved[k].kind = "engulf"
         /\ resolved[k].loser.playerId = ui.playerIdRef

\* the UI plays, the Map holds no blob of the local player and neither does
\* the snapshot published last
lostAndTold ==
    /\ ui.uiState = "playing"
    /\ ui.playerIdRef # EmptyId
    /\ published # <<>>
    /\ ~ownsLiveBlob
    /\ \A i \in DOMAIN published[1].blobs :
         published[1].blobs[i].playerId # ui.playerIdRef

\* C38: once the local player's last blob has been consumed and a tick has
\* published a snapshot without a blob of that player while the UI is
\* 'playing', the UI eventually becomes 'gameOver', and it leaves 'gameOver'
\* only by startGame.
C38_GameOverInTheEnd ==
    /\ lostAndTold ~> ui.uiState = "gameOver"
    /\ [][ui.uiState = "gameOver" /\ ui'.uiState # "gameOver" => IsStartGame]_vars

\* the UI shows game over for a player a rival engulfed
C38_Witness ==
    /\ ui.uiState = "gameOver"
    /\ ~ownsLiveBlob
    /\ \E k \in DOMAIN resolved :
         /\ resolved[k].kind = "engulf"
         /\ resolved[k].loser.playerId = ui.playerIdRef
         /\ resolved[k].winner.playerId # ui.playerIdRef

=============================================================================
